---- MODULE Spec2Model ----
(***************************************************************************)
(* Crop-care plan generation and task expansion of ShowcaseX               *)
(* (src/src/services/farmingPlan.ts).                                      *)
(*                                                                         *)
(* Representation                                                          *)
(*   - a JavaScript Date at local midnight is an integer day number,       *)
(*     day 0 being Epoch (2024-01-01);                                     *)
(*   - a string is a tuple: an ISO date "YYYY-MM-DD" is <<y, m, d>>, a     *)
(*     "DD/MM/YYYY" date is <<"dmy", d, m, y>>, any other non-empty text   *)
(*     is <<"text">>, the empty string is <<>>;                            *)
(*   - ISO strings are compared as JavaScript compares strings (<, >,      *)
(*     localeCompare on equal-length digit strings): lexicographically;    *)
(*   - a LocalizedText3 is <<en, hi, bn>>, an absent one is <<>>;          *)
(*   - areas are in thousandths of an acre, so that rounding to 1/100 in   *)
(*     the plan id is a real conversion;                                   *)
(*   - a Firestore document is a record with every field present, absent   *)
(*     fields holding the empty value of their type; the collection is a   *)
(*     function from the ids of the existing documents to the documents;   *)
(*   - notes texts, time-of-day fields and Timestamps are left out.        *)
(***************************************************************************)
EXTENDS Integers, Sequences, FiniteSets, TLC

\* parseLooseDate's null (an invalid Date); real day numbers are >= 0.
NullDate == 0 - 1

\* The empty / undefined string, for date strings and localized texts.
NoText == <<>>

\* Day 0 of the calendar.
Epoch == <<2024, 1, 1>>

\* -------------------------------------------------------------------------
\* Calendar (what the JavaScript Date object computes)
\* -------------------------------------------------------------------------
IsLeap(y) == (y % 4 = 0 /\ y % 100 # 0) \/ y % 400 = 0

DaysInMonth(y, m) ==
    IF m = 2 THEN (IF IsLeap(y) THEN 29 ELSE 28)
    ELSE IF m \in {4, 6, 9, 11} THEN 30 ELSE 31

DaysInYear(y) == IF IsLeap(y) THEN 366 ELSE 365

RECURSIVE DaysBeforeYear(_)
DaysBeforeYear(y) == IF y <= Epoch[1] THEN 0 ELSE DaysBeforeYear(y - 1) + DaysInYear(y - 1)

RECURSIVE DaysBeforeMonth(_, _)
DaysBeforeMonth(y, m) == IF m <= 1 THEN 0 ELSE DaysBeforeMonth(y, m - 1) + DaysInMonth(y, m - 1)

\* new Date(yyyy, mm - 1, dd): out-of-range day numbers roll over.
MakeDate(y, m, d) == DaysBeforeYear(y) + DaysBeforeMonth(y, m) + (d - 1)

RECURSIVE YMDFrom(_, _, _)
YMDFrom(y, m, n) ==
    IF n < DaysInMonth(y, m) THEN <<y, m, n + 1>>
    ELSE IF m = 12 THEN YMDFrom(y + 1, 1, n - DaysInMonth(y, m))
    ELSE YMDFrom(y, m + 1, n - DaysInMonth(y, m))

\* toISODate: getFullYear / getMonth + 1 / getDate, zero padded.
toISODate(date) == YMDFrom(Epoch[1], 1, date)

\* addDays: setDate(getDate() + days).
addDays(date, days) == date + days

\* String comparison of two ISO dates: a < b.
ISOLess(a, b) ==
    \/ a[1] < b[1]
    \/ a[1] = b[1] /\ a[2] < b[2]
    \/ a[1] = b[1] /\ a[2] = b[2] /\ a[3] < b[3]

ISOLeq(a, b) == a = b \/ ISOLess(a, b)

\* clampISO
clampISO(iso, minISO, maxISO) ==
    IF ISOLess(iso, minISO) THEN minISO
    ELSE IF ISOLess(maxISO, iso) THEN maxISO
    ELSE iso

IsISOForm(s) == Len(s) = 3
IsDMYForm(s) == Len(s) = 4

\* parseLooseDate.  The ISO branch hands the text to the engine's Date parser,
\* which rejects month 0 / 13 and day 0 / 32; for a day of 29..31 that the
\* month does not have, the outcome depends on the engine: it either rolls
\* over into the next month (rollover = TRUE) or yields an invalid Date.
\* The DD/MM/YYYY branch builds the Date from numbers and checks the round trip.
parseLooseDate(value, rollover) ==
    IF Len(value) = 0 THEN NullDate
    ELSE IF IsISOForm(value) THEN
        LET y == value[1]  m == value[2]  d == value[3] IN
        IF m < 1 \/ m > 12 \/ d < 1 \/ d > 31 THEN NullDate
        ELSE IF d > DaysInMonth(y, m) /\ ~rollover THEN NullDate
        ELSE MakeDate(y, m, d)
    ELSE IF IsDMYForm(value) THEN
        LET dd == value[2]  mm == value[3]  yyyy == value[4]
            d == MakeDate(yyyy, mm, dd) IN
        IF mm >= 1 /\ mm <= 12 /\ dd >= 1 /\ toISODate(d) = <<yyyy, mm, dd>> THEN d ELSE NullDate
    ELSE NullDate

\* -------------------------------------------------------------------------
\* List helpers (Array.prototype.reduce into an object, Array.prototype.sort)
\* -------------------------------------------------------------------------
\* Object.values(list.reduce((acc, x) => { acc[key(x)] = x; return acc }, {})):
\* one entry per key, at the position of the key's first occurrence, holding
\* the key's last occurrence.
\* An array given by its elements, as a sequence.
ArrayOf(elements) == <<>> \o elements

FirstOccurrences(keys) ==
    {i \in 1..Len(keys) : \A j \in 1..(i - 1) : keys[j] # keys[i]}

LastOccurrence(keys, i) ==
    CHOOSE j \in i..Len(keys) :
        keys[j] = keys[i] /\ \A k \in (j + 1)..Len(keys) : keys[k] # keys[i]

UniqueByKey(list, keys) ==
    LET unique(items, ks) ==
            LET firsts == FirstOccurrences(ks)
                place == ArrayOf([i \in 1..Len(ks) |-> 1 + Cardinality({j \in firsts : j < i})])
            IN  ArrayOf([k \in 1..Cardinality(firsts) |->
                    items[LastOccurrence(ks, CHOOSE i \in firsts : place[i] = k)]])
    IN  unique(ArrayOf(list), ArrayOf(keys))

\* a < b for two tuples of numbers of the same length, compared position by position.
RECURSIVE TupleLess(_, _)
TupleLess(a, b) ==
    IF Len(a) = 0 THEN FALSE
    ELSE IF Head(a) # Head(b) THEN Head(a) < Head(b)
    ELSE TupleLess(Tail(a), Tail(b))

\* Array.prototype.sort, which is stable, with a comparator that orders by a
\* tuple of numbers: an element goes after the elements that compare lower and
\* after the equal ones that stood before it.
SortedPosition(keys, i) ==
    1 + Cardinality({j \in 1..Len(keys) :
                        TupleLess(keys[j], keys[i]) \/ (keys[j] = keys[i] /\ j < i)})

StableSort(list, keys) ==
    LET sorted(items, ks) ==
            LET place == ArrayOf([i \in 1..Len(items) |-> SortedPosition(ks, i)])
            IN  ArrayOf([k \in 1..Len(items) |-> items[CHOOSE i \in 1..Len(items) : place[i] = k]])
    IN  sorted(ArrayOf(list), ArrayOf(keys))

\* -------------------------------------------------------------------------
\* Text helpers
\* -------------------------------------------------------------------------
\* normalizeLanguage
normalizeLanguage(lang) ==
    IF lang \in {"hi", "hn"} THEN "hi" ELSE IF lang = "bn" THEN "bn" ELSE "en"

LangIndex(lang) == IF lang = "hi" THEN 2 ELSE IF lang = "bn" THEN 3 ELSE 1

\* pickI18n: value[lang] || value.en || value.hi || value.bn; "" is undefined.
pickI18n(value, lang) ==
    IF value = NoText THEN ""
    ELSE IF value[LangIndex(lang)] # "" THEN value[LangIndex(lang)]
    ELSE IF value[1] # "" THEN value[1]
    ELSE IF value[2] # "" THEN value[2]
    ELSE value[3]

\* a || b on strings
OrText(a, b) == IF a # "" THEN a ELSE b

\* sanitizeId on the crop names of the model: trim, lower-case, runs of
\* non-alphanumerics to "-", leading and trailing "-" removed.
sanitizeId(value) ==
    CASE value \in {"rice", "Rice", "Rice "} -> "rice"
      [] value \in {"tomato", "Tomato"} -> "tomato"
      [] OTHER -> ""

\* String.prototype.trim on the crop names of the model.
Trim(value) == IF value = "Rice " THEN "Rice" ELSE value

\* toLowerCase on the crop names of the model.
ToLower(value) ==
    CASE value \in {"Rice", "Rice "} -> "rice"
      [] value = "Tomato" -> "tomato"
      [] OTHER -> value

\* inferMaturityDays
inferMaturityDays(cropNameOrType) ==
    LET c == ToLower(Trim(cropNameOrType)) IN
    IF c = "rice" THEN 120
    ELSE IF c = "wheat" THEN 120
    ELSE IF c \in {"maize", "corn"} THEN 100
    ELSE IF c = "potato" THEN 95
    ELSE IF c = "tomato" THEN 95
    ELSE IF c = "onion" THEN 125
    ELSE IF c = "cotton" THEN 160
    ELSE IF c = "sugarcane" THEN 330
    ELSE 110

Max(a, b) == IF a >= b THEN a ELSE b

\* The reserved everyDays value of a rule that documents the end of irrigation.
StopSentinel == 9999

DefaultWateringTitle == "Water/irrigate (as per stage)"

\* -------------------------------------------------------------------------
\* buildHeuristicPlan
\* -------------------------------------------------------------------------
WateringRule(startDay, endDay, everyDays) ==
    [startDay |-> startDay, endDay |-> endDay, everyDays |-> everyDays,
     title |-> "", titleI18n |-> NoText]

\* addRecurring
RecurringRule(type, title, startDay, endDay, everyDays) ==
    [id |-> <<type, title>>, type |-> type, title |-> title, titleI18n |-> NoText,
     startDay |-> startDay, endDay |-> endDay, everyDays |-> everyDays]

\* addTask
OneOffTask(type, title, dueDateISO) ==
    [id |-> <<type, title, dueDateISO>>, type |-> type, title |-> title,
     titleI18n |-> NoText, dueDateISO |-> dueDateISO]

HeuristicMaturityDays(cropName, plantingDate, expectedHarvestDate) ==
    IF expectedHarvestDate # NullDate
    THEN Max(1, expectedHarvestDate - plantingDate)
    ELSE inferMaturityDays(cropName)

HeuristicHarvest(cropName, plantingDate, expectedHarvestDate) ==
    IF expectedHarvestDate # NullDate
    THEN expectedHarvestDate
    ELSE addDays(plantingDate, HeuristicMaturityDays(cropName, plantingDate, expectedHarvestDate))

\* The scouting rule given the cadence of the drainage rule.
HeuristicScoutingRule_DrainageCadence(maturityDays) ==
    RecurringRule("field", "Field scouting (pests, disease, weeds, moisture)", 0, maturityDays, 5)

HeuristicScoutingRule(maturityDays) ==
    RecurringRule("field", "Field scouting (pests, disease, weeds, moisture)", 7, maturityDays, 7)

HeuristicRecurring(plantingDate, maturityDays) ==
    LET month == toISODate(plantingDate)[2]
        isMonsoonWindow == month >= 6 /\ month <= 9
    IN  <<HeuristicScoutingRule(maturityDays)>>
        \o (IF isMonsoonWindow
            THEN <<RecurringRule("field", "Check drainage & remove standing water (monsoon)",
                                 0, maturityDays, 5)>>
            ELSE <<>>)

\* Rice given no watering rules, only its milestone tasks.
HeuristicWatering_NoRiceRules(cropKey, maturityDays) ==
    IF cropKey = "rice" \/ cropKey = "wheat" THEN <<>>
    ELSE
        << WateringRule(0, 14, 1),
           WateringRule(15, Max(15, maturityDays - 10), 2),
           WateringRule(Max(0, maturityDays - 9), maturityDays, 3) >>

HeuristicWatering(cropKey, maturityDays) ==
    IF cropKey = "rice" THEN
        << WateringRule(0, 30, 1),
           WateringRule(31, Max(31, maturityDays - 15), 2),
           WateringRule(Max(0, maturityDays - 14), maturityDays, StopSentinel) >>
    ELSE IF cropKey = "wheat" THEN <<>>
    ELSE
        << WateringRule(0, 14, 1),
           WateringRule(15, Max(15, maturityDays - 10), 2),
           WateringRule(Max(0, maturityDays - 9), maturityDays, 3) >>

HeuristicTasks(cropKey, plantingDate, harvest) ==
    LET due(n) == toISODate(addDays(plantingDate, n))
        crop ==
            IF cropKey = "rice" THEN
                << OneOffTask("fertilizer", "Basal fertilization (FYM/compost + recommended NPK) and zinc if needed", due(0)),
                   OneOffTask("fertilizer", "Top dress nitrogen (tillering stage)", due(25)),
                   OneOffTask("fertilizer", "Top dress nitrogen/potash (panicle initiation)", due(55)),
                   OneOffTask("pest", "Install pheromone/light traps (stem borer/leaf folder monitoring)", due(10)) >>
            ELSE IF cropKey = "wheat" THEN
                << OneOffTask("watering", "Irrigation #1 (Crown Root Initiation - CRI)", due(21)),
                   OneOffTask("watering", "Irrigation #2 (Tillering)", due(40)),
                   OneOffTask("watering", "Irrigation #3 (Jointing/Booting)", due(60)),
                   OneOffTask("watering", "Irrigation #4 (Heading/Flowering)", due(80)),
                   OneOffTask("watering", "Irrigation #5 (Milking/Dough stage)", due(95)),
                   OneOffTask("fertilizer", "Basal dose (FYM/compost + recommended NPK)", due(0)),
                   OneOffTask("fertilizer", "Top dress nitrogen (after first irrigation / CRI)", due(22)),
                   OneOffTask("disease", "Rust/leaf blight monitoring and preventive spray decision", due(55)) >>
            ELSE
                << OneOffTask("fertilizer", "Basal nutrition (FYM/compost + recommended NPK)", due(0)),
                   OneOffTask("fertilizer", "Top dressing (nitrogen) + micronutrient check", due(25)),
                   OneOffTask("pest", "Install sticky/pheromone traps (monitoring)", due(10)),
                   OneOffTask("disease", "Preventive fungal risk check (humidity/leaf wetness)", due(20)) >>
        uniqueTasks(tasks) == UniqueByKey(tasks, [i \in 1..Len(tasks) |-> tasks[i].id])
        sortedTasks(tasks) == StableSort(tasks, [i \in 1..Len(tasks) |-> tasks[i].dueDateISO])
    IN  sortedTasks(uniqueTasks(crop \o
            << OneOffTask("harvest", "Harvest window starts (plan labor, bags, storage, drying)",
                          toISODate(harvest)) >>))

\* The cleanup day falling on the harvest day.
CleanupAfter_OnHarvest(harvest) == harvest

\* cleanupAfter = addDays(harvest, 1)
CleanupAfter(harvest) == addDays(harvest, 1)

\* expectedHarvestDate is NullDate when no (valid) override was given.
buildHeuristicPlan(cropType, cropName, areaAcres, plantingDate, expectedHarvestDate) ==
    LET name == OrText(cropName, cropType)
        plan(maturityDays, harvest, cropKey) ==
            [cropType |-> cropType,
             cropName |-> cropName,
             areaAcres |-> areaAcres,
             plantingDateISO |-> toISODate(plantingDate),
             expectedHarvestDateISO |-> toISODate(harvest),
             cleanupAfterISO |-> toISODate(CleanupAfter(harvest)),
             wateringRules |-> HeuristicWatering(cropKey, maturityDays),
             recurringTasks |-> HeuristicRecurring(plantingDate, maturityDays),
             tasks |-> HeuristicTasks(cropKey, plantingDate, harvest),
             status |-> "active",
             source |-> "heuristic"]
    IN  plan(HeuristicMaturityDays(name, plantingDate, expectedHarvestDate),
             HeuristicHarvest(name, plantingDate, expectedHarvestDate),
             ToLower(Trim(name)))

\* -------------------------------------------------------------------------
\* Bounds and inputs of the model
\* -------------------------------------------------------------------------
\* upsert calls started in one behaviour
MaxCalls == 2
\* times the clock moves on in one behaviour, and by how many days each time
MaxClockSteps == 1
ClockStepDays == 4

\* projection calls started in one behaviour
MaxProjectCalls == 2

Procs == {1}
\* The callers of the specifications of interleaved calls.
Callers == {1, 2}

FirstToday == MakeDate(2024, 6, 2)

BaseRequest ==
    [cropType |-> "rice", cropName |-> "rice", areaAcres |-> 1004,
     plantingDate |-> <<2024, 6, 1>>, expectedHarvestDate |-> NoText, source |-> ""]

CropInputs == {"Tomato"}
PlantingDateInputs == {<<"dmy", 1, 6, 2024>>, <<2024, 2, 30>>, <<"dmy", 30, 2, 2024>>, <<"text">>, NoText}
HarvestDateInputs == {<<2024, 5, 30>>, <<2024, 6, 1>>, <<2024, 6, 4>>, <<2024, 6, 20>>}
AreaInputs == {0, 0 - 500}
SourceInputs == {"cropPredictionForm"}

\* The base request and every request that differs from it in one parameter.
Requests ==
    {BaseRequest}
    \cup {[BaseRequest EXCEPT !.cropType = c, !.cropName = c] : c \in CropInputs}
    \cup {[BaseRequest EXCEPT !.plantingDate = d] : d \in PlantingDateInputs}
    \cup {[BaseRequest EXCEPT !.expectedHarvestDate = d] : d \in HarvestDateInputs}
    \cup {[BaseRequest EXCEPT !.areaAcres = a] : a \in AreaInputs}
    \cup {[BaseRequest EXCEPT !.source = x] : x \in SourceInputs}

\* The request for rice planted 2024-02-20, whose last watering rule starts on
\* 2024-06-05.
EarlyRiceRequest == [BaseRequest EXCEPT !.plantingDate = <<2024, 2, 20>>]

\* Arguments of the queries.
QueryDates == {<<2024, 5, 30>>, <<2024, 6, 1>>, <<2024, 6, 8>>, <<2024, 6, 25>>}
\* Days at which a plan's range is split in two.
SplitDates == {<<2024, 6, 1>>, <<2024, 6, 8>>}
WindowDaysInputs == {0, 7}
\* Arguments of the projection: the window, the time of day of the call
\* (07:00 and 13:00, in minutes), and which registration the scheduler rejects.
ProjectWindowInputs == {<<>>, <<0>>, <<200>>}
NowMinutesInputs == {420, 780}
ScheduleFailureInputs == {0, 2}
QueryLanguages == {"en"}
UnknownId == <<"wheat", <<2024, 1, 1>>, 100>>

\* Messages of the errors the oracle call rejects with; "" is an error whose
\* message is not a string.
OracleErrors == {"Gemini request timed out", ""}

\* What the oracle may answer to a request for a crop planted on plantingDate:
\* a well-formed plan, and a plan with no harvest date, a rule ending past any
\* harvest date, a rule with startDay > endDay and no cadence, and a one-off
\* task dated before planting.
OracleResponses(plantingDate) ==
    { [title |-> <<"Season plan", "", "">>,
       overview |-> <<"Season overview", "", "">>,
       dates |-> [plantingDateISO |-> toISODate(plantingDate),
                  expectedHarvestDateISO |-> toISODate(addDays(plantingDate, 20))],
       wateringRules |-> << [startDay |-> 0, endDay |-> 12, everyDays |-> 3,
                             title |-> <<"Irrigate", "", "">>] >>,
       recurringTasks |-> << [type |-> "field", title |-> <<"Scout field", "", "">>,
                              startDay |-> 7, endDay |-> 20, everyDays |-> 7] >>,
       oneOffTasks |-> << [type |-> "fertilizer", title |-> <<"Apply urea", "", "">>,
                           dueDateISO |-> toISODate(addDays(plantingDate, 10))] >>],
      [title |-> <<"Season plan", "", "">>,
       overview |-> <<"Season overview", "", "">>,
       dates |-> [plantingDateISO |-> toISODate(plantingDate),
                  expectedHarvestDateISO |-> NoText],
       wateringRules |-> << [startDay |-> 0, endDay |-> 9, everyDays |-> 0,
                             title |-> <<"", "", "">>] >>,
       recurringTasks |-> << [type |-> "pest", title |-> <<"", "", "">>,
                              startDay |-> 10, endDay |-> 3, everyDays |-> 0] >>,
       oneOffTasks |-> << [type |-> "general", title |-> <<"Prepare field", "", "">>,
                           dueDateISO |-> toISODate(addDays(plantingDate, 0 - 2))] >>] }

\* -------------------------------------------------------------------------
\* Persistence: the caller's farmingPlans collection
\* -------------------------------------------------------------------------
NoId == <<>>

DocFields ==
    {"id", "cropType", "cropName", "areaAcres", "planTitleI18n", "planOverviewI18n",
     "plantingDateISO", "expectedHarvestDateISO", "cleanupAfterISO",
     "wateringRules", "recurringTasks", "tasks", "status", "source",
     "geminiGenerationAttempted", "geminiGenerationError"}

\* A document none of whose fields is set.
EmptyDoc ==
    [id |-> NoId, cropType |-> "", cropName |-> "", areaAcres |-> 0,
     planTitleI18n |-> NoText, planOverviewI18n |-> NoText,
     plantingDateISO |-> NoText, expectedHarvestDateISO |-> NoText, cleanupAfterISO |-> NoText,
     wateringRules |-> <<>>, recurringTasks |-> <<>>, tasks |-> <<>>,
     status |-> "", source |-> "",
     geminiGenerationAttempted |-> FALSE, geminiGenerationError |-> ""]

\* getDoc: the snapshot's data, or null (EmptyDoc) when it does not exist.
ReadDoc(st, id) == IF id \in DOMAIN st THEN st[id] ELSE EmptyDoc

\* setDoc(ref, fields, { merge: true }): the fields given replace the stored
\* ones (arrays as a whole), the others stay.
MergedDoc(old, fields) ==
    [ cropType |-> IF "cropType" \in DOMAIN fields THEN fields.cropType ELSE old.cropType,
      id |-> IF "id" \in DOMAIN fields THEN fields.id ELSE old.id,
      cropName |-> IF "cropName" \in DOMAIN fields THEN fields.cropName ELSE old.cropName,
      areaAcres |-> IF "areaAcres" \in DOMAIN fields THEN fields.areaAcres ELSE old.areaAcres,
      planTitleI18n |->
          IF "planTitleI18n" \in DOMAIN fields THEN fields.planTitleI18n ELSE old.planTitleI18n,
      planOverviewI18n |->
          IF "planOverviewI18n" \in DOMAIN fields THEN fields.planOverviewI18n ELSE old.planOverviewI18n,
      plantingDateISO |->
          IF "plantingDateISO" \in DOMAIN fields THEN fields.plantingDateISO ELSE old.plantingDateISO,
      expectedHarvestDateISO |->
          IF "expectedHarvestDateISO" \in DOMAIN fields
          THEN fields.expectedHarvestDateISO ELSE old.expectedHarvestDateISO,
      cleanupAfterISO |->
          IF "cleanupAfterISO" \in DOMAIN fields THEN fields.cleanupAfterISO ELSE old.cleanupAfterISO,
      wateringRules |->
          IF "wateringRules" \in DOMAIN fields THEN fields.wateringRules ELSE old.wateringRules,
      recurringTasks |->
          IF "recurringTasks" \in DOMAIN fields THEN fields.recurringTasks ELSE old.recurringTasks,
      tasks |-> IF "tasks" \in DOMAIN fields THEN fields.tasks ELSE old.tasks,
      status |-> IF "status" \in DOMAIN fields THEN fields.status ELSE old.status,
      source |-> IF "source" \in DOMAIN fields THEN fields.source ELSE old.source,
      geminiGenerationAttempted |->
          IF "geminiGenerationAttempted" \in DOMAIN fields
          THEN fields.geminiGenerationAttempted ELSE old.geminiGenerationAttempted,
      geminiGenerationError |->
          IF "geminiGenerationError" \in DOMAIN fields
          THEN fields.geminiGenerationError ELSE old.geminiGenerationError ]

SetDocMerge(st, id, fields) ==
    [x \in DOMAIN st \cup {id} |-> IF x = id THEN MergedDoc(ReadDoc(st, id), fields) ELSE st[x]]

\* deleteDoc
DeleteDoc(st, id) == [x \in DOMAIN st \ {id} |-> st[x]]

\* -------------------------------------------------------------------------
\* upsertFarmingPlanForCurrentUser: the computations between its awaits
\* -------------------------------------------------------------------------
\* Number(x) || dflt
NumOr(x, dflt) == IF x = 0 THEN dflt ELSE x

Abs(x) == IF x < 0 THEN 0 - x ELSE x

UpsertCropName(req) == Trim(OrText(req.cropName, req.cropType))
UpsertCropType(req) == Trim(OrText(req.cropType, UpsertCropName(req)))

\* areaKeyRaw after sanitizeId: Math.round(area * 100) / 100 printed, "." to
\* "p", a leading "-" dropped; as a number of hundredths.
AreaKey(areaAcres) == Abs((areaAcres + 5) \div 10)

PlanIdOf(req, planting) ==
    <<sanitizeId(OrText(UpsertCropName(req), UpsertCropType(req))), toISODate(planting), AreaKey(req.areaAcres)>>

\* params.expectedHarvestDate ? parseLooseDate(params.expectedHarvestDate) : null
UpsertExpectedHarvest(req, rollover) ==
    IF req.expectedHarvestDate = NoText THEN NullDate
    ELSE parseLooseDate(req.expectedHarvestDate, rollover)

hasGeminiContent(existing) ==
    existing.planTitleI18n # NoText /\ existing.planOverviewI18n # NoText

\* alreadyAttemptedGemini reading a field no write sets.
alreadyAttemptedGemini_WrongField(existing) == FALSE

alreadyAttemptedGemini(existing) == existing.geminiGenerationAttempted

\* The condition without its third conjunct.
ShouldGenerate_NoAttemptCheck(configured, existing) ==
    configured /\ ~hasGeminiContent(existing)

\* The condition under which the oracle is invoked.
ShouldGenerate(configured, existing) ==
    configured /\ ~hasGeminiContent(existing) /\ ~alreadyAttemptedGemini(existing)

GenericGeminiError == "Gemini plan generation failed"

\* The catch block's partial document.
AttemptDoc(message) ==
    [geminiGenerationAttempted |-> TRUE, geminiGenerationError |-> message]

\* The planDoc of the heuristic schedule when Gemini is not used.
HeuristicPlanDoc(req, planId, planting, expectedHarvest) ==
    LET planDoc(base) ==
            [id |-> planId,
             cropType |-> base.cropType, cropName |-> base.cropName, areaAcres |-> base.areaAcres,
             plantingDateISO |-> base.plantingDateISO,
             expectedHarvestDateISO |-> base.expectedHarvestDateISO,
             cleanupAfterISO |-> base.cleanupAfterISO,
             wateringRules |-> base.wateringRules,
             recurringTasks |-> base.recurringTasks,
             tasks |-> base.tasks,
             status |-> base.status,
             source |-> OrText(req.source, base.source)]
    IN  planDoc(buildHeuristicPlan(UpsertCropType(req),
                                   OrText(UpsertCropName(req), UpsertCropType(req)),
                                   req.areaAcres, planting, expectedHarvest))

\* The fallback planDoc spreading the existing document instead of the
\* heuristic plan.
FallbackPlanDoc_SpreadsExisting(req, planId, planting, expectedHarvest, existing) ==
    [id |-> planId,
     cropType |-> existing.cropType, cropName |-> existing.cropName, areaAcres |-> existing.areaAcres,
     plantingDateISO |-> existing.plantingDateISO,
     expectedHarvestDateISO |-> existing.expectedHarvestDateISO,
     cleanupAfterISO |-> existing.cleanupAfterISO,
     wateringRules |-> existing.wateringRules,
     recurringTasks |-> existing.recurringTasks,
     tasks |-> existing.tasks,
     status |-> existing.status,
     source |-> OrText(req.source, existing.source),
     geminiGenerationAttempted |-> TRUE,
     geminiGenerationError |-> OrText(existing.geminiGenerationError, GenericGeminiError)]

\* The planDoc of the heuristic schedule after the oracle failed.
FallbackPlanDoc(req, planId, planting, expectedHarvest, existing) ==
    LET planDoc(doc) ==
            [id |-> doc.id,
             cropType |-> doc.cropType, cropName |-> doc.cropName, areaAcres |-> doc.areaAcres,
             plantingDateISO |-> doc.plantingDateISO,
             expectedHarvestDateISO |-> doc.expectedHarvestDateISO,
             cleanupAfterISO |-> doc.cleanupAfterISO,
             wateringRules |-> doc.wateringRules,
             recurringTasks |-> doc.recurringTasks,
             tasks |-> doc.tasks,
             status |-> doc.status,
             source |-> doc.source,
             geminiGenerationAttempted |-> TRUE,
             geminiGenerationError |-> OrText(existing.geminiGenerationError, GenericGeminiError)]
    IN  planDoc(HeuristicPlanDoc(req, planId, planting, expectedHarvest))

GeneratedHarvestISO(generated, planting, expectedHarvest) ==
    LET clamped(plantingISO, iso) ==
            IF ISOLeq(iso, plantingISO) THEN toISODate(addDays(planting, 1)) ELSE iso
    IN  clamped(toISODate(planting),
                IF generated.dates.expectedHarvestDateISO # NoText
                THEN generated.dates.expectedHarvestDateISO
                ELSE IF expectedHarvest # NullDate THEN toISODate(expectedHarvest)
                ELSE toISODate(planting))

GeneratedWateringRules(generated) ==
    [i \in 1..Len(generated.wateringRules) |->
        LET w == generated.wateringRules[i] IN
        [startDay |-> NumOr(w.startDay, 0),
         endDay |-> NumOr(w.endDay, 0),
         everyDays |-> Max(1, NumOr(w.everyDays, 1)),
         title |-> w.title[1],
         titleI18n |-> w.title]]

GeneratedRecurringTasks(generated) ==
    [i \in 1..Len(generated.recurringTasks) |->
        LET r == generated.recurringTasks[i]
            titleEn == r.title[1] IN
        [id |-> <<r.type, OrText(titleEn, "task")>>,
         type |-> OrText(r.type, "general"),
         title |-> OrText(titleEn, "Task"),
         titleI18n |-> r.title,
         startDay |-> NumOr(r.startDay, 0),
         endDay |-> NumOr(r.endDay, 0),
         everyDays |-> Max(1, NumOr(r.everyDays, 7))]]

GeneratedTasks(generated) ==
    [i \in 1..Len(generated.oneOffTasks) |->
        LET t == generated.oneOffTasks[i]
            titleEn == t.title[1] IN
        [id |-> <<t.type, OrText(titleEn, "task"), t.dueDateISO>>,
         type |-> OrText(t.type, "general"),
         title |-> OrText(titleEn, "Task"),
         titleI18n |-> t.title,
         dueDateISO |-> t.dueDateISO]]

\* The planDoc built from the oracle's plan.
GeneratedPlanDoc(req, planId, planting, expectedHarvest, generated, rollover) ==
    LET cropDisplay == OrText(UpsertCropName(req), UpsertCropType(req))
        harvest(parsed) ==
            IF parsed # NullDate THEN parsed
            ELSE IF expectedHarvest # NullDate THEN expectedHarvest
            ELSE addDays(planting, inferMaturityDays(cropDisplay))
        planDoc(expectedHarvestDateISO) ==
            [id |-> planId,
             cropType |-> UpsertCropType(req),
             cropName |-> cropDisplay,
             areaAcres |-> req.areaAcres,
             planTitleI18n |-> generated.title,
             planOverviewI18n |-> generated.overview,
             plantingDateISO |-> generated.dates.plantingDateISO,
             expectedHarvestDateISO |-> expectedHarvestDateISO,
             cleanupAfterISO |->
                 toISODate(CleanupAfter(harvest(parseLooseDate(expectedHarvestDateISO, rollover)))),
             wateringRules |-> GeneratedWateringRules(generated),
             recurringTasks |-> GeneratedRecurringTasks(generated),
             tasks |-> GeneratedTasks(generated),
             status |-> "active",
             source |-> OrText(req.source, "gemini"),
             geminiGenerationAttempted |-> TRUE,
             geminiGenerationError |-> ""]
    IN  planDoc(GeneratedHarvestISO(generated, planting, expectedHarvest))

\* -------------------------------------------------------------------------
\* Expansion of a plan's rules into task instances
\* -------------------------------------------------------------------------
\* String.prototype.localeCompare on the titles of the model: the titles in
\* the order of the default collation (case-insensitive at the first level,
\* space before punctuation before letters).
LocaleOrder ==
    << "apply lime",
       "Apply urea",
       "Basal dose (FYM/compost + recommended NPK)",
       "Basal fertilization (FYM/compost + recommended NPK) and zinc if needed",
       "Basal nutrition (FYM/compost + recommended NPK)",
       "Check drainage & remove standing water (monsoon)",
       "Field scouting (pests, disease, weeds, moisture)",
       "Harvest window starts (plan labor, bags, storage, drying)",
       "Install pheromone/light traps (stem borer/leaf folder monitoring)",
       "Install sticky/pheromone traps (monitoring)",
       "Irrigate",
       "Irrigation #1 (Crown Root Initiation - CRI)",
       "Irrigation #2 (Tillering)",
       "Irrigation #3 (Jointing/Booting)",
       "Irrigation #4 (Heading/Flowering)",
       "Irrigation #5 (Milking/Dough stage)",
       "Prepare field",
       "Preventive fungal risk check (humidity/leaf wetness)",
       "rice",
       "Rust/leaf blight monitoring and preventive spray decision",
       "Scout field",
       "Season plan",
       "Task",
       "Tomato",
       "Top dress nitrogen (after first irrigation / CRI)",
       "Top dress nitrogen (tillering stage)",
       "Top dress nitrogen/potash (panicle initiation)",
       "Top dressing (nitrogen) + micronutrient check",
       "Water/irrigate (as per stage)" >>

LocaleRank(text) ==
    IF text = "" THEN 0 ELSE CHOOSE i \in 1..Len(LocaleOrder) : LocaleOrder[i] = text

\* a.localeCompare(b) < 0
LocaleLess(a, b) == LocaleRank(a) < LocaleRank(b)

\* The titles of the model in the order of their UTF-16 code units (upper case
\* before lower case).
OrdinalOrder ==
    << "Apply urea",
       "Basal dose (FYM/compost + recommended NPK)",
       "Basal fertilization (FYM/compost + recommended NPK) and zinc if needed",
       "Basal nutrition (FYM/compost + recommended NPK)",
       "Check drainage & remove standing water (monsoon)",
       "Field scouting (pests, disease, weeds, moisture)",
       "Harvest window starts (plan labor, bags, storage, drying)",
       "Install pheromone/light traps (stem borer/leaf folder monitoring)",
       "Install sticky/pheromone traps (monitoring)",
       "Irrigate",
       "Irrigation #1 (Crown Root Initiation - CRI)",
       "Irrigation #2 (Tillering)",
       "Irrigation #3 (Jointing/Booting)",
       "Irrigation #4 (Heading/Flowering)",
       "Irrigation #5 (Milking/Dough stage)",
       "Prepare field",
       "Preventive fungal risk check (humidity/leaf wetness)",
       "Rust/leaf blight monitoring and preventive spray decision",
       "Scout field",
       "Season plan",
       "Task",
       "Tomato",
       "Top dress nitrogen (after first irrigation / CRI)",
       "Top dress nitrogen (tillering stage)",
       "Top dress nitrogen/potash (panicle initiation)",
       "Top dressing (nitrogen) + micronutrient check",
       "Water/irrigate (as per stage)",
       "apply lime",
       "rice" >>

OrdinalRank(text) ==
    IF text = "" THEN 0 ELSE CHOOSE i \in 1..Len(OrdinalOrder) : OrdinalOrder[i] = text

\* inferTimeOfDay
inferTimeOfDay(type) ==
    IF type \in {"watering", "fertilizer", "disease", "harvest"} THEN "morning"
    ELSE IF type = "pest" THEN "evening"
    ELSE "afternoon"

defaultTimeHHmmForTimeOfDay(tod) ==
    IF tod = "morning" THEN "07:00"
    ELSE IF tod = "afternoon" THEN "13:00"
    ELSE IF tod = "evening" THEN "18:00"
    ELSE IF tod = "night" THEN "20:30"
    ELSE "13:00"

\* Every rule and task upsert stores carries the time of day inferred from its
\* type and that time's default HH:mm; a watering instance is a morning one.
TaskInstance(plan, lang, type, title, dueDateISO) ==
    [planId |-> plan.id,
     cropName |-> plan.cropName,
     planTitle |-> OrText(pickI18n(plan.planTitleI18n, lang), plan.cropName),
     planExpectedHarvestDateISO |-> plan.expectedHarvestDateISO,
     type |-> type,
     title |-> title,
     dueDateISO |-> dueDateISO,
     timeHHmm |-> defaultTimeHHmmForTimeOfDay(inferTimeOfDay(type))]

\* The watering loops skipping no rule.
SkipsWateringRule_Never(w) == FALSE

\* if (w.everyDays >= 9999) continue;
SkipsWateringRule(w) == w.everyDays >= StopSentinel

Min(a, b) == IF a <= b THEN a ELSE b

\* The least whole number of steps of size b > 0 that cover a > 0.
CeilDiv(a, b) == (a + b - 1) \div b

\* The first loop starting the cursor at rangeStart instead of stepping to it.
AlignCursor_FromRangeStart(cursor, rangeStart, everyDays, last) ==
    IF cursor < rangeStart THEN rangeStart ELSE cursor

\* while (cursor < rangeStart) { cursor = addDays(cursor, everyDays); if (cursor > last) break; }
\* The loop leaves with the first cursor that has reached rangeStart or passed last.
AlignCursor(cursor, rangeStart, everyDays, last) ==
    IF cursor < rangeStart
    THEN LET toStart == CeilDiv(rangeStart - cursor, everyDays)
             pastLast == IF cursor > last THEN 1 ELSE (last - cursor) \div everyDays + 1
         IN  addDays(cursor, everyDays * Min(toStart, pastLast))
    ELSE cursor

\* The values cursor takes in a loop
\* while (cursor <= bound) { ...; cursor = addDays(cursor, everyDays); }
CursorValues(cursor, bound, everyDays) ==
    IF cursor > bound THEN <<>>
    ELSE ArrayOf([k \in 1..((bound - cursor) \div everyDays + 1) |->
                     addDays(cursor, (k - 1) * everyDays)])

\* The second loop of expandInRangeFromRules: the due dates it pushes.  The
\* loop breaks after the first due date past safeEndISO, and none of the later
\* ones is in the window.
EmitInRange(cursor, last, everyDays, safeStartISO, safeEndISO) ==
    LET dues(cursors) == ArrayOf([k \in 1..Len(cursors) |-> toISODate(cursors[k])])
    IN  SelectSeq(dues(CursorValues(cursor, last, everyDays)),
                  LAMBDA due : ISOLeq(safeStartISO, due) /\ ISOLeq(due, safeEndISO))

\* The due dates one cadence rule contributes to expandInRangeFromRules.
RuleDatesInRange(planting, rule, safeStartISO, safeEndISO, rollover) ==
    LET first == addDays(planting, rule.startDay)
        last == addDays(planting, rule.endDay)
        parsed == parseLooseDate(safeStartISO, rollover)
        rangeStart == IF parsed # NullDate THEN parsed ELSE first
        cursor == AlignCursor(first, rangeStart, rule.everyDays, last)
    IN  EmitInRange(cursor, last, rule.everyDays, safeStartISO, safeEndISO)

RECURSIVE Flatten(_)
Flatten(lists) == IF Len(lists) = 0 THEN <<>> ELSE Head(lists) \o Flatten(Tail(lists))

RECURSIVE SelectSeqIdx(_, _, _)
SelectSeqIdx(list, keep, i) ==
    IF i > Len(list) THEN <<>>
    ELSE (IF keep[i] THEN <<list[i]>> ELSE <<>>) \o SelectSeqIdx(list, keep, i + 1)

InstanceKey(task) == <<task.planId, task.dueDateISO, task.title>>

\* The list results of expandInRangeFromRules before it is deduplicated: what
\* the one-off tasks, the recurring tasks and the watering rules push.
EmittedInRange(plan, startISO, endISO, language, rollover) ==
    LET lang == normalizeLanguage(language)
        planting == parseLooseDate(plan.plantingDateISO, rollover)
    IN
    IF planting = NullDate THEN <<>>
    ELSE
    LET planStartISO == plan.plantingDateISO
        planEndISO == plan.expectedHarvestDateISO
        safeStartISO == clampISO(startISO, planStartISO, planEndISO)
        safeEndISO == clampISO(endISO, planStartISO, planEndISO)
    IN
    IF ISOLess(safeEndISO, safeStartISO) THEN <<>>
    ELSE
    LET inWindow(iso) == ISOLeq(safeStartISO, iso) /\ ISOLeq(iso, safeEndISO)
        oneOff == SelectSeqIdx(
            [i \in 1..Len(plan.tasks) |->
                TaskInstance(plan, lang, plan.tasks[i].type,
                             OrText(pickI18n(plan.tasks[i].titleI18n, lang), plan.tasks[i].title),
                             plan.tasks[i].dueDateISO)],
            [i \in 1..Len(plan.tasks) |-> inWindow(plan.tasks[i].dueDateISO)], 1)
        recurring == Flatten(
            [i \in 1..Len(plan.recurringTasks) |->
                LET r == plan.recurringTasks[i]
                    dates == RuleDatesInRange(planting, r, safeStartISO, safeEndISO, rollover)
                IN  [k \in 1..Len(dates) |->
                        TaskInstance(plan, lang, r.type,
                                     OrText(pickI18n(r.titleI18n, lang), r.title), dates[k])]])
        watering == Flatten(
            [i \in 1..Len(plan.wateringRules) |->
                LET w == plan.wateringRules[i] IN
                IF SkipsWateringRule(w) THEN <<>>
                ELSE
                LET dates == RuleDatesInRange(planting, w, safeStartISO, safeEndISO, rollover)
                IN  [k \in 1..Len(dates) |->
                        TaskInstance(plan, lang, "watering",
                                     OrText(OrText(pickI18n(w.titleI18n, lang), w.title), DefaultWateringTitle),
                                     dates[k])]])
    IN  oneOff \o recurring \o watering

\* The list deduplicated keeping every instance.
UniqueByInstanceKey_KeepsAll(results) == ArrayOf(results)

\* Deduplicate by (planId + dueDate + title): the last instance pushed for a key
\* stands where the key was first pushed.
UniqueByInstanceKey(results) ==
    UniqueByKey(results, [i \in 1..Len(results) |-> InstanceKey(results[i])])

expandInRangeFromRules(plan, startISO, endISO, language, rollover) ==
    LET sorted(unique) ==
            StableSort(unique,
                [i \in 1..Len(unique) |-> unique[i].dueDateISO \o <<LocaleRank(unique[i].title)>>])
    IN  sorted(UniqueByInstanceKey(EmittedInRange(plan, startISO, endISO, language, rollover)))

\* The second loop of expandUpcomingFromRules: the due dates it pushes.
EmitUpcoming(cursor, last, everyDays, end) ==
    LET dues(cursors) == ArrayOf([k \in 1..Len(cursors) |-> toISODate(cursors[k])])
    IN  dues(CursorValues(cursor, Min(end, last), everyDays))

RuleDatesUpcoming(planting, rule, start, end) ==
    LET first == addDays(planting, rule.startDay)
        last == addDays(planting, rule.endDay)
        cursor == AlignCursor(first, start, rule.everyDays, last)
    IN  EmitUpcoming(cursor, last, rule.everyDays, end)

\* The instances expandUpcomingFromRules pushes carry no time of day.
UpcomingInstance(plan, lang, type, title, dueDateISO) ==
    [planId |-> plan.id,
     cropName |-> plan.cropName,
     planTitle |-> OrText(pickI18n(plan.planTitleI18n, lang), plan.cropName),
     planExpectedHarvestDateISO |-> plan.expectedHarvestDateISO,
     type |-> type,
     title |-> title,
     dueDateISO |-> dueDateISO]

\* now is the day the call is made on.
expandUpcomingFromRules(plan, windowDays, language, now, rollover) ==
    LET lang == normalizeLanguage(language)
        planting == parseLooseDate(plan.plantingDateISO, rollover)
    IN
    IF planting = NullDate THEN <<>>
    ELSE
    LET start == now
        end == addDays(start, windowDays)
        inWindow(iso) == ISOLeq(toISODate(start), iso) /\ ISOLeq(iso, toISODate(end))
        oneOff == SelectSeqIdx(
            [i \in 1..Len(plan.tasks) |->
                UpcomingInstance(plan, lang, plan.tasks[i].type,
                             OrText(pickI18n(plan.tasks[i].titleI18n, lang), plan.tasks[i].title),
                             plan.tasks[i].dueDateISO)],
            [i \in 1..Len(plan.tasks) |-> inWindow(plan.tasks[i].dueDateISO)], 1)
        recurring == Flatten(
            [i \in 1..Len(plan.recurringTasks) |->
                LET r == plan.recurringTasks[i]
                    dates == RuleDatesUpcoming(planting, r, start, end)
                IN  [k \in 1..Len(dates) |->
                        UpcomingInstance(plan, lang, r.type,
                                     OrText(pickI18n(r.titleI18n, lang), r.title), dates[k])]])
        watering == Flatten(
            [i \in 1..Len(plan.wateringRules) |->
                LET w == plan.wateringRules[i] IN
                IF SkipsWateringRule(w) THEN <<>>
                ELSE
                LET dates == RuleDatesUpcoming(planting, w, start, end)
                IN  [k \in 1..Len(dates) |->
                        UpcomingInstance(plan, lang, "watering",
                                     OrText(OrText(pickI18n(w.titleI18n, lang), w.title), DefaultWateringTitle),
                                     dates[k])]])
    IN  oneOff \o recurring \o watering

\* -------------------------------------------------------------------------
\* State
\* -------------------------------------------------------------------------
VARIABLES
    store,            \* the caller's farmingPlans collection: planId -> document
    today,            \* the current day (new Date() at local midnight)
    clockSteps,       \* how often the clock has moved on
    geminiConfigured, \* isGeminiConfigured()
    signedIn,         \* auth.currentUser is set
    rollover,         \* the engine's Date parser rolls a day the month lacks over
    pc,               \* per caller: where its asynchronous call stands
    call,             \* per caller: the local variables of its upsert call
    ret,              \* per caller: the outcome of its latest call
    calls,            \* number of upsert calls started
    sweepDocs,        \* per caller: the query snapshot a sweep still has to delete
    sweepDeleted,     \* per caller: the sweep's deleted counter
    sweepStart,       \* per caller with a sweep under way: its todayISO, and
                      \* history: the collection when the sweep queried it
    q,                \* the response of the latest query
    sink,             \* the host scheduler: notification id -> registered trigger
    storedIds,        \* AsyncStorage: plan id -> the ids the latest stored batch holds
    proj,             \* per caller: the local variables of its projection call
    nextId,           \* the id the host scheduler hands out next
    projCalls,        \* number of projection calls started
    prev,             \* history: the upsert call that returned in the latest step
    attemptedIds      \* history: plan ids an oracle attempt was ever recorded for

vars == <<store, today, clockSteps, geminiConfigured, signedIn, rollover, pc, call, ret,
          calls, sweepDocs, sweepDeleted, sweepStart, q, sink, storedIds, proj, nextId, projCalls,
          prev, attemptedIds>>

env == <<geminiConfigured, signedIn, rollover>>

notif == <<sink, storedIds, proj, nextId, projCalls>>

NoRequest ==
    [cropType |-> "", cropName |-> "", areaAcres |-> 0,
     plantingDate |-> NoText, expectedHarvestDate |-> NoText, source |-> ""]

NoPrev ==
    [valid |-> FALSE, req |-> NoRequest, planId |-> NoId, oracle |-> FALSE, oracleFailed |-> FALSE,
     repeat |-> FALSE, firstOracle |-> FALSE]

NoCall ==
    [req |-> NoRequest, planId |-> NoId, planting |-> NullDate, expectedHarvest |-> NullDate,
     existing |-> EmptyDoc, pending |-> EmptyDoc,
     oracle |-> FALSE, oracleFailed |-> FALSE, message |-> "", first |-> NoPrev, afterAttempt |-> FALSE]

NoSweepStart == [todayISO |-> NoText, store |-> <<>>]

\* pc is "idle", "cancel", "schedule" or "store"; tasks, now and upcoming are
\* the call's locals of those names, ids the ids it has pushed, scheduledCount
\* its result.
NoProj ==
    [pc |-> "idle", call |-> 0, planId |-> NoId, tasks |-> <<>>, now |-> 0, upcoming |-> <<>>, ids |-> <<>>,
     scheduledCount |-> 0, returned |-> FALSE]

NoRet == [kind |-> "none", call |-> 0, req |-> NoRequest, planId |-> NoId, deleted |-> 0]

\* outcome is "ok" for a call that resolved; left and right hold the results of
\* the two part-window calls of a split query.
NoQuery ==
    [kind |-> "none", outcome |-> "none", planId |-> NoId, startISO |-> NoText, endISO |-> NoText,
     windowDays |-> 0, result |-> <<>>, midISO |-> NoText, left |-> <<>>, right |-> <<>>]

Init ==
    /\ store = <<>>
    /\ today = FirstToday
    /\ clockSteps = 0
    /\ geminiConfigured \in BOOLEAN
    /\ signedIn \in BOOLEAN
    /\ rollover \in BOOLEAN
    /\ pc = [p \in Procs |-> "idle"]
    /\ call = [p \in Procs |-> NoCall]
    /\ ret = [p \in Procs |-> NoRet]
    /\ calls = 0
    /\ sweepDocs = [p \in Procs |-> {}]
    /\ sweepDeleted = [p \in Procs |-> 0]
    /\ sweepStart = [p \in Procs |-> NoSweepStart]
    /\ sink = <<>>
    /\ storedIds = <<>>
    /\ proj = [p \in Procs |-> NoProj]
    /\ nextId = 1
    /\ projCalls = 0
    /\ q = NoQuery
    /\ prev = NoPrev
    /\ attemptedIds = {}

\* -------------------------------------------------------------------------
\* upsertFarmingPlanForCurrentUser
\* -------------------------------------------------------------------------
UpsertRet(kind, req, planId) ==
    [kind |-> kind, call |-> calls + 1, req |-> req, planId |-> planId, deleted |-> 0]

\* The call is made with no user signed in.
UpsertNoUser(p, req) ==
    /\ pc[p] = "idle"
    /\ calls < MaxCalls
    /\ ~signedIn
    /\ calls' = calls + 1
    /\ ret' = [ret EXCEPT ![p] = UpsertRet("AuthError", req, NoId)]
    /\ UNCHANGED q
    /\ prev' = NoPrev
    /\ UNCHANGED <<store, today, clockSteps, env, notif, pc, call, sweepDocs, sweepDeleted, sweepStart, attemptedIds>>

\* The planting date does not parse.
UpsertInvalidDate(p, req) ==
    /\ pc[p] = "idle"
    /\ calls < MaxCalls
    /\ signedIn
    /\ parseLooseDate(req.plantingDate, rollover) = NullDate
    /\ calls' = calls + 1
    /\ ret' = [ret EXCEPT ![p] = UpsertRet("ValidationError", req, NoId)]
    /\ UNCHANGED q
    /\ prev' = NoPrev
    /\ UNCHANGED <<store, today, clockSteps, env, notif, pc, call, sweepDocs, sweepDeleted, sweepStart, attemptedIds>>

\* The call up to the point where getDoc has answered: the oracle is invoked,
\* or the heuristic planDoc is handed to setDoc.
UpsertBegin(p, req) ==
    /\ pc[p] = "idle"
    /\ calls < MaxCalls
    /\ signedIn
    /\ parseLooseDate(req.plantingDate, rollover) # NullDate
    /\ LET decide(planting, expectedHarvest, planId, existing, generate) ==
               /\ call' = [call EXCEPT ![p] =
                      [req |-> req, planId |-> planId, planting |-> planting,
                       expectedHarvest |-> expectedHarvest, existing |-> existing,
                       pending |-> IF generate THEN EmptyDoc
                                   ELSE HeuristicPlanDoc(req, planId, planting, expectedHarvest),
                       oracle |-> generate, oracleFailed |-> FALSE,
                       message |-> "", first |-> prev, afterAttempt |-> planId \in attemptedIds]]
               /\ pc' = [pc EXCEPT ![p] = IF generate THEN "oracle" ELSE "write"]
               /\ ret' = [ret EXCEPT ![p] = UpsertRet("pending", req, planId)]
           read(planting, planId) ==
               decide(planting, UpsertExpectedHarvest(req, rollover), planId,
                      ReadDoc(store, planId),
                      ShouldGenerate(geminiConfigured, ReadDoc(store, planId)))
           begin(planting) == read(planting, PlanIdOf(req, planting))
       IN  begin(parseLooseDate(req.plantingDate, rollover))
    /\ calls' = calls + 1
    /\ UNCHANGED q
    /\ prev' = NoPrev
    /\ UNCHANGED <<store, today, clockSteps, env, notif, sweepDocs, sweepDeleted, sweepStart, attemptedIds>>

\* getDoc rejects.
UpsertReadFails(p, req) ==
    /\ pc[p] = "idle"
    /\ calls < MaxCalls
    /\ signedIn
    /\ parseLooseDate(req.plantingDate, rollover) # NullDate
    /\ calls' = calls + 1
    /\ ret' = [ret EXCEPT ![p] = UpsertRet("StorageError", req, NoId)]
    /\ UNCHANGED q
    /\ prev' = NoPrev
    /\ UNCHANGED <<store, today, clockSteps, env, notif, pc, call, sweepDocs, sweepDeleted, sweepStart, attemptedIds>>

\* generateLocalizedFarmingPlanV1 resolves with a plan.
OracleSucceeds(p) ==
    /\ pc[p] = "oracle"
    /\ \E generated \in OracleResponses(call[p].planting) :
          call' = [call EXCEPT ![p].pending =
                      GeneratedPlanDoc(call[p].req, call[p].planId, call[p].planting,
                                       call[p].expectedHarvest, generated, rollover)]
    /\ pc' = [pc EXCEPT ![p] = "write"]
    /\ UNCHANGED q
    /\ prev' = NoPrev
    /\ UNCHANGED <<store, today, clockSteps, env, notif, ret, calls, sweepDocs, sweepDeleted, sweepStart, attemptedIds>>

\* generateLocalizedFarmingPlanV1 rejects: the catch block hands the attempt to setDoc.
OracleFails(p, message) ==
    /\ pc[p] = "oracle"
    /\ call' = [call EXCEPT ![p].pending = AttemptDoc(OrText(message, GenericGeminiError)),
                            ![p].oracleFailed = TRUE,
                            ![p].message = message]
    /\ pc' = [pc EXCEPT ![p] = "recordAttempt"]
    /\ UNCHANGED q
    /\ prev' = NoPrev
    /\ UNCHANGED <<store, today, clockSteps, env, notif, ret, calls, sweepDocs, sweepDeleted, sweepStart, attemptedIds>>

\* The catch block's setDoc is applied; the fallback planDoc is handed to setDoc.
WriteAttempt(p) ==
    /\ pc[p] = "recordAttempt"
    /\ store' = SetDocMerge(store, call[p].planId, call[p].pending)
    /\ call' = [call EXCEPT ![p].pending =
                   FallbackPlanDoc(call[p].req, call[p].planId, call[p].planting,
                                   call[p].expectedHarvest, call[p].existing)]
    /\ pc' = [pc EXCEPT ![p] = "write"]
    /\ attemptedIds' = attemptedIds \cup {call[p].planId}
    /\ UNCHANGED q
    /\ prev' = NoPrev
    /\ UNCHANGED <<today, clockSteps, env, notif, ret, calls, sweepDocs, sweepDeleted, sweepStart>>

\* The planDoc's setDoc is applied and the call returns { planId }.
WritePlan(p) ==
    /\ pc[p] = "write"
    /\ store' = SetDocMerge(store, call[p].planId, call[p].pending)
    /\ ret' = [ret EXCEPT ![p].kind = "ok"]
    /\ prev' = [valid |-> TRUE, req |-> call[p].req, planId |-> call[p].planId,
                oracle |-> call[p].oracle, oracleFailed |-> call[p].oracleFailed,
                repeat |-> call[p].first.valid /\ call[p].first.req = call[p].req,
                firstOracle |-> call[p].first.oracle]
    /\ attemptedIds' =
          IF "geminiGenerationAttempted" \in DOMAIN call[p].pending
          THEN attemptedIds \cup {call[p].planId} ELSE attemptedIds
    /\ call' = [call EXCEPT ![p] = NoCall]
    /\ pc' = [pc EXCEPT ![p] = "idle"]
    /\ UNCHANGED q
    /\ UNCHANGED <<today, clockSteps, env, notif, calls, sweepDocs, sweepDeleted, sweepStart>>

\* A setDoc rejects: the error leaves the call.
WriteFails(p) ==
    /\ pc[p] \in {"recordAttempt", "write"}
    /\ ret' = [ret EXCEPT ![p].kind = "StorageError"]
    /\ call' = [call EXCEPT ![p] = NoCall]
    /\ pc' = [pc EXCEPT ![p] = "idle"]
    /\ UNCHANGED q
    /\ prev' = NoPrev
    /\ UNCHANGED <<store, today, clockSteps, env, notif, calls, sweepDocs, sweepDeleted, sweepStart, attemptedIds>>

\* -------------------------------------------------------------------------
\* cleanupExpiredFarmingPlansForCurrentUser
\* -------------------------------------------------------------------------
SweepRet(deleted) ==
    [kind |-> "swept", call |-> 0, req |-> NoRequest, planId |-> NoId, deleted |-> deleted]

\* The query matching cleanupAfterISO <= todayISO.
ExpiredIds_Inclusive(st, todayISO) ==
    {id \in DOMAIN st : st[id].cleanupAfterISO # NoText /\ ISOLeq(st[id].cleanupAfterISO, todayISO)}

\* where('cleanupAfterISO', '<', todayISO): documents without the field do not match.
ExpiredIds(st, todayISO) ==
    {id \in DOMAIN st : st[id].cleanupAfterISO # NoText /\ ISOLess(st[id].cleanupAfterISO, todayISO)}

SweepNoUser(p) ==
    /\ pc[p] = "idle"
    /\ ~signedIn
    /\ ret' = [ret EXCEPT ![p] = SweepRet(0)]
    /\ UNCHANGED q
    /\ prev' = NoPrev
    /\ UNCHANGED <<store, today, clockSteps, env, notif, pc, call, calls, sweepDocs, sweepDeleted, sweepStart, attemptedIds>>

\* getDocs answers; with an empty snapshot the call returns { deleted: 0 } at once.
SweepBegin(p) ==
    /\ pc[p] = "idle"
    /\ signedIn
    /\ LET todayISO == toISODate(today)
           snap == ExpiredIds(store, todayISO)
       IN  /\ sweepDocs' = [sweepDocs EXCEPT ![p] = snap]
           /\ sweepStart' = [sweepStart EXCEPT ![p] =
                                 IF snap = {} THEN NoSweepStart
                                 ELSE [todayISO |-> todayISO, store |-> store]]
           /\ pc' = [pc EXCEPT ![p] = IF snap = {} THEN "idle" ELSE "sweep"]
           /\ ret' = [ret EXCEPT ![p] = IF snap = {} THEN SweepRet(0) ELSE NoRet]
    /\ sweepDeleted' = [sweepDeleted EXCEPT ![p] = 0]
    /\ UNCHANGED q
    /\ prev' = NoPrev
    /\ UNCHANGED <<store, today, clockSteps, env, notif, call, calls, attemptedIds>>

\* One deleteDoc is applied; after the last one the call returns { deleted }.
SweepDelete(p) ==
    /\ pc[p] = "sweep"
    /\ \E id \in sweepDocs[p] :
        LET rest == sweepDocs[p] \ {id} IN
        /\ store' = DeleteDoc(store, id)
        /\ sweepDocs' = [sweepDocs EXCEPT ![p] = rest]
        /\ sweepStart' = [sweepStart EXCEPT ![p] = IF rest = {} THEN NoSweepStart ELSE sweepStart[p]]
        /\ sweepDeleted' = [sweepDeleted EXCEPT ![p] = IF rest = {} THEN 0 ELSE sweepDeleted[p] + 1]
        /\ pc' = [pc EXCEPT ![p] = IF rest = {} THEN "idle" ELSE "sweep"]
        /\ ret' = [ret EXCEPT ![p] = IF rest = {} THEN SweepRet(sweepDeleted[p] + 1) ELSE NoRet]
    /\ UNCHANGED q
    /\ prev' = NoPrev
    /\ UNCHANGED <<today, clockSteps, env, notif, call, calls, attemptedIds>>

\* getDocs or a deleteDoc rejects: the error leaves the call.
SweepFails(p) ==
    /\ \/ pc[p] = "sweep"
       \/ pc[p] = "idle" /\ signedIn
    /\ pc' = [pc EXCEPT ![p] = "idle"]
    /\ sweepDocs' = [sweepDocs EXCEPT ![p] = {}]
    /\ sweepStart' = [sweepStart EXCEPT ![p] = NoSweepStart]
    /\ sweepDeleted' = [sweepDeleted EXCEPT ![p] = 0]
    /\ ret' = [ret EXCEPT ![p] =
                  [kind |-> "StorageError", call |-> 0, req |-> NoRequest, planId |-> NoId, deleted |-> 0]]
    /\ UNCHANGED q
    /\ prev' = NoPrev
    /\ UNCHANGED <<store, today, clockSteps, env, notif, call, calls, attemptedIds>>

\* -------------------------------------------------------------------------
\* Queries
\* -------------------------------------------------------------------------
\* getFarmingTasksForPlanInRangeForCurrentUser (getFarmingTasksForPlanOnDateForCurrentUser
\* is the call with startISO = endISO).
getFarmingTasksForPlanInRange(planId, startISO, endISO, language) ==
    IF ~signedIn \/ planId \notin DOMAIN store THEN <<>>
    ELSE expandInRangeFromRules(store[planId], startISO, endISO, language, rollover)

QueryRange(planId, startISO, endISO, language) ==
    /\ q' = [NoQuery EXCEPT !.kind = "range", !.outcome = "ok", !.planId = planId,
                             !.startISO = startISO, !.endISO = endISO,
                             !.result = getFarmingTasksForPlanInRange(planId, startISO, endISO, language)]
    /\ UNCHANGED <<store, today, clockSteps, env, notif, pc, call, ret, calls, sweepDocs, sweepDeleted, sweepStart,
                   prev, attemptedIds>>

\* Three calls of the range query for one stored plan: over the plan's whole
\* range [plantingDateISO, expectedHarvestDateISO], over its part up to
\* midISO, and over its part from the day after midISO.
QuerySplit(planId, midISO, language) ==
    /\ planId \in DOMAIN store
    /\ store[planId].plantingDateISO # NoText
    /\ ISOLeq(store[planId].plantingDateISO, midISO)
    /\ ISOLess(midISO, store[planId].expectedHarvestDateISO)
    /\ LET plan == store[planId]
           nextISO == toISODate(addDays(parseLooseDate(midISO, rollover), 1))
       IN  q' = [NoQuery EXCEPT
                    !.kind = "split", !.outcome = "ok", !.planId = planId,
                    !.startISO = plan.plantingDateISO, !.endISO = plan.expectedHarvestDateISO,
                    !.midISO = midISO,
                    !.result = getFarmingTasksForPlanInRange(
                                   planId, plan.plantingDateISO, plan.expectedHarvestDateISO, language),
                    !.left = getFarmingTasksForPlanInRange(
                                 planId, plan.plantingDateISO, midISO, language),
                    !.right = getFarmingTasksForPlanInRange(
                                  planId, nextISO, plan.expectedHarvestDateISO, language)]
    /\ UNCHANGED <<store, today, clockSteps, env, notif, pc, call, ret, calls, sweepDocs, sweepDeleted, sweepStart,
                   prev, attemptedIds>>

\* The order of document ids in a query snapshot.
IdCropRank(crop) == CASE crop = "rice" -> 1 [] crop = "tomato" -> 2 [] OTHER -> 3

IdLess(a, b) ==
    \/ IdCropRank(a[1]) < IdCropRank(b[1])
    \/ a[1] = b[1] /\ ISOLess(a[2], b[2])
    \/ a[1] = b[1] /\ a[2] = b[2] /\ a[3] < b[3]

\* query(where('status', '==', 'active')): the matching documents in id order.
ActivePlans(st) ==
    LET ids == {id \in DOMAIN st : st[id].status = "active"}
    IN  [k \in 1..Cardinality(ids) |->
            st[CHOOSE id \in ids : Cardinality({x \in ids : IdLess(x, id)}) = k - 1]]

getUpcomingFarmingTasks(windowDaysParam, language) ==
    IF ~signedIn THEN <<>>
    ELSE
    LET windowDays == Max(1, windowDaysParam)
        plans == ActivePlans(store)
        expanded == Flatten([i \in 1..Len(plans) |->
                        expandUpcomingFromRules(plans[i], windowDays, language, today, rollover)])
        unique == UniqueByKey(expanded, [i \in 1..Len(expanded) |-> InstanceKey(expanded[i])])
    IN  StableSort(unique,
            [i \in 1..Len(unique) |->
                unique[i].dueDateISO \o unique[i].planExpectedHarvestDateISO
                \o <<LocaleRank(unique[i].planTitle), LocaleRank(unique[i].title)>>])

\* getActiveFarmingPlansForCurrentUser: the summaries of the active plans, each
\* with the first instance of its unsorted 7-day expansion as its next task,
\* sorted by next task date, harvest date, update day (latest first) and title.
\* A document's updatedAt is the day of its last write.
PreviewWindowDays == 7

NoNextTaskISO == <<9999, 12, 31>>

PlanSummary(p, language, now, roll) ==
    LET summary(upcoming) ==
            [id |-> p.id, cropName |-> p.cropName, cropType |-> p.cropType, areaAcres |-> p.areaAcres,
             plantingDateISO |-> p.plantingDateISO,
             expectedHarvestDateISO |-> p.expectedHarvestDateISO,
             status |-> p.status,
             planTitle |-> OrText(pickI18n(p.planTitleI18n, normalizeLanguage(language)), p.cropName),
             source |-> p.source,
             updatedAtISO |-> IF "updatedAt" \in DOMAIN p THEN toISODate(p.updatedAt) ELSE NoText,
             nextTaskDateISO |-> IF Len(upcoming) > 0 THEN upcoming[1].dueDateISO ELSE NoText,
             nextTaskTitle |-> IF Len(upcoming) > 0 THEN upcoming[1].title ELSE NoText,
             nextTaskCountIn7Days |-> Len(upcoming)]
    IN  summary(expandUpcomingFromRules(p, PreviewWindowDays, language, now, roll))

getActiveFarmingPlans(language) ==
    IF ~signedIn THEN <<>>
    ELSE
    LET todayISO == toISODate(today)
        plans == ActivePlans(store)
        summaries == ArrayOf([i \in 1..Len(plans) |-> PlanSummary(plans[i], language, today, rollover)])
        sortKey(a) ==
            (IF a.nextTaskDateISO = NoText THEN NoNextTaskISO ELSE a.nextTaskDateISO)
            \o a.expectedHarvestDateISO
            \o <<0 - parseLooseDate(IF a.updatedAtISO = NoText THEN todayISO ELSE a.updatedAtISO, rollover),
                 LocaleRank(a.planTitle)>>
    IN  StableSort(summaries, [i \in 1..Len(summaries) |-> sortKey(summaries[i])])

QueryActivePlans(language) ==
    /\ q' = [NoQuery EXCEPT !.kind = "active", !.outcome = "ok", !.result = getActiveFarmingPlans(language)]
    /\ UNCHANGED <<store, today, clockSteps, env, notif, pc, call, ret, calls, sweepDocs, sweepDeleted, sweepStart,
                   prev, attemptedIds>>

QueryUpcoming(windowDaysParam, language) ==
    /\ q' = [NoQuery EXCEPT !.kind = "upcoming", !.outcome = "ok", !.windowDays = windowDaysParam,
                             !.result = getUpcomingFarmingTasks(windowDaysParam, language)]
    /\ UNCHANGED <<store, today, clockSteps, env, notif, pc, call, ret, calls, sweepDocs, sweepDeleted, sweepStart,
                   prev, attemptedIds>>

\* -------------------------------------------------------------------------
\* schedulePlanTaskNotificationsAsync
\* -------------------------------------------------------------------------
\* Instants are minutes since the start of day 0.
MinutesPerDay == 1440

NotificationCap == 60

DefaultProjectWindowDays == 45
MinProjectWindowDays == 1
MaxProjectWindowDays == 120

\* params.windowDays ?? 45, held within 1..120; the parameter is <<n>>, or <<>> when missing.
ProjectWindowDays(windowDaysParam) ==
    Max(MinProjectWindowDays,
        Min(MaxProjectWindowDays,
            IF windowDaysParam = <<>> THEN DefaultProjectWindowDays ELSE windowDaysParam[1]))

\* The HH:mm strings of the model in the order of localeCompare.
HHmmOrder == <<"07:00", "13:00", "18:00", "20:30">>

HHmmRank(timeHHmm) == CHOOSE i \in 1..Len(HHmmOrder) : HHmmOrder[i] = timeHHmm

\* Number(hhStr) * 60 + Number(mmStr) of the two parts of timeHHmm.
HHmmMinutes(timeHHmm) ==
    IF timeHHmm = "07:00" THEN 7 * 60
    ELSE IF timeHHmm = "13:00" THEN 13 * 60
    ELSE IF timeHHmm = "18:00" THEN 18 * 60
    ELSE IF timeHHmm = "20:30" THEN 20 * 60 + 30
    ELSE 13 * 60

\* dateFromISOAndTime: the instant, or NullDate for a date that does not parse.
dateFromISOAndTime(dateISO, timeHHmm, roll) ==
    LET instant(base) ==
            IF base = NullDate THEN NullDate ELSE base * MinutesPerDay + HHmmMinutes(timeHHmm)
    IN  instant(parseLooseDate(dateISO, roll))

\* The first n elements of a list.
Slice(list, n) == SubSeq(list, 1, Min(n, Len(list)))

\* The filter taking every trigger of the window, those not after now too.
FutureTriggers_All(entries, now) == entries

\* .filter((x) => x.triggerDate && x.triggerDate.getTime() > now.getTime())
FutureTriggers(entries, now) ==
    SelectSeq(entries, LAMBDA x : x.triggerDate # NullDate /\ x.triggerDate > now)

\* .slice(0, 60)
CapTriggers(entries) == Slice(entries, NotificationCap)

\* detailed.sort by dueDateISO, then by timeHHmm.
SortDetailed(tasks) ==
    StableSort(tasks, [i \in 1..Len(tasks) |-> tasks[i].dueDateISO \o <<HHmmRank(tasks[i].timeHHmm)>>])

\* The list upcoming of the call: the sorted tasks with their trigger dates,
\* those after now, cut at the cap.
UpcomingTriggers(tasks, now, roll) ==
    LET entries(detailed) ==
            ArrayOf([i \in 1..Len(detailed) |->
                [task |-> detailed[i],
                 triggerDate |-> dateFromISOAndTime(detailed[i].dueDateISO, detailed[i].timeHHmm, roll)]])
    IN  CapTriggers(FutureTriggers(entries(SortDetailed(tasks)), now))

\* What scheduleNotificationAsync registers for an entry of upcoming.
Registered(entry) ==
    [planId |-> entry.task.planId, dueDateISO |-> entry.task.dueDateISO,
     taskTitle |-> entry.task.title, date |-> entry.triggerDate]

\* The call up to the list upcoming: the plan is read, its tasks of
\* [today, today + windowDays] are expanded, sorted, filtered and cut; without a
\* plan the call returns { scheduledCount: 0 }.  nowMinutes is the time of day
\* the call is made at.
ProjectBegin(p, planId, windowDaysParam, language, nowMinutes) ==
    /\ proj[p].pc = "idle"
    /\ projCalls < MaxProjectCalls
    /\ projCalls' = projCalls + 1
    /\ LET windowDays == ProjectWindowDays(windowDaysParam)
           now == today * MinutesPerDay + nowMinutes
           begin(tasks) ==
               proj' = [proj EXCEPT ![p] =
                   IF ~signedIn \/ planId \notin DOMAIN store
                   THEN [NoProj EXCEPT !.call = projCalls + 1, !.planId = planId, !.now = now, !.returned = TRUE]
                   ELSE [NoProj EXCEPT !.pc = "cancel", !.call = projCalls + 1, !.planId = planId, !.tasks = tasks, !.now = now,
                                       !.upcoming = UpcomingTriggers(tasks, now, rollover)]]
       IN  begin(getFarmingTasksForPlanInRange(planId, toISODate(today),
                                               toISODate(addDays(today, windowDays)), language))
    /\ UNCHANGED <<store, today, clockSteps, env, pc, call, ret, calls, sweepDocs, sweepDeleted, sweepStart,
                   q, sink, storedIds, nextId, prev, attemptedIds>>

\* cancelPreviouslyScheduledForPlanAsync: the ids stored for the plan are
\* cancelled in the host scheduler.
ProjectCancel(p) ==
    /\ proj[p].pc = "cancel"
    /\ LET ids == IF proj[p].planId \in DOMAIN storedIds THEN storedIds[proj[p].planId] ELSE <<>>
           cancelled == {ids[i] : i \in 1..Len(ids)}
       IN  sink' = [id \in DOMAIN sink \ cancelled |-> sink[id]]
    /\ proj' = [proj EXCEPT ![p].pc = "schedule"]
    /\ UNCHANGED <<store, today, clockSteps, env, pc, call, ret, calls, sweepDocs, sweepDeleted, sweepStart,
                   q, storedIds, nextId, projCalls, prev, attemptedIds>>

\* The loop over upcoming: every entry is registered under a new id, but for
\* the entry at position failAt, whose scheduleNotificationAsync rejects
\* (failAt = 0: none rejects).
ProjectSchedule(p, failAt) ==
    /\ proj[p].pc = "schedule"
    /\ failAt <= Len(proj[p].upcoming)
    /\ LET upcoming == proj[p].upcoming
           kept == {i \in 1..Len(upcoming) : i # failAt}
           idOf(i) == nextId + Cardinality({j \in kept : j < i})
           ids == ArrayOf([k \in 1..Cardinality(kept) |-> nextId + k - 1])
       IN  /\ sink' = [id \in DOMAIN sink \cup {idOf(i) : i \in kept} |->
                          IF id \in DOMAIN sink THEN sink[id]
                          ELSE Registered(upcoming[CHOOSE i \in kept : idOf(i) = id])]
           /\ nextId' = nextId + Cardinality(kept)
           /\ proj' = [proj EXCEPT ![p].pc = "store", ![p].ids = ids]
    /\ UNCHANGED <<store, today, clockSteps, env, pc, call, ret, calls, sweepDocs, sweepDeleted, sweepStart,
                   q, storedIds, projCalls, prev, attemptedIds>>

\* AsyncStorage.setItem stores the ids and the call returns { scheduledCount }.
ProjectStore(p) ==
    /\ proj[p].pc = "store"
    /\ storedIds' = [x \in DOMAIN storedIds \cup {proj[p].planId} |->
                        IF x = proj[p].planId THEN proj[p].ids ELSE storedIds[x]]
    /\ proj' = [proj EXCEPT ![p].pc = "idle", ![p].scheduledCount = Len(proj[p].ids),
                            ![p].returned = TRUE]
    /\ UNCHANGED <<store, today, clockSteps, env, pc, call, ret, calls, sweepDocs, sweepDeleted, sweepStart,
                   q, sink, nextId, projCalls, prev, attemptedIds>>

\* AsyncStorage.setItem rejects; the error is ignored and the call returns.
ProjectStoreFails(p) ==
    /\ proj[p].pc = "store"
    /\ proj' = [proj EXCEPT ![p].pc = "idle", ![p].scheduledCount = Len(proj[p].ids),
                            ![p].returned = TRUE]
    /\ UNCHANGED <<store, today, clockSteps, env, pc, call, ret, calls, sweepDocs, sweepDeleted, sweepStart,
                   q, sink, storedIds, nextId, projCalls, prev, attemptedIds>>

\* -------------------------------------------------------------------------
\* Time
\* -------------------------------------------------------------------------
AdvanceClock ==
    /\ clockSteps < MaxClockSteps
    /\ clockSteps' = clockSteps + 1
    /\ today' = addDays(today, ClockStepDays)
    /\ UNCHANGED q
    /\ prev' = NoPrev
    /\ UNCHANGED <<store, env, notif, pc, call, ret, calls, sweepDocs, sweepDeleted, sweepStart, attemptedIds>>

\* -------------------------------------------------------------------------
\* Specification
\* -------------------------------------------------------------------------
Next ==
    \/ \E p \in Procs, req \in Requests : UpsertNoUser(p, req)
    \/ \E p \in Procs, req \in Requests : UpsertInvalidDate(p, req)
    \/ \E p \in Procs, req \in Requests : UpsertBegin(p, req)
    \/ \E p \in Procs, req \in Requests : UpsertReadFails(p, req)
    \/ \E p \in Procs : OracleSucceeds(p)
    \/ \E p \in Procs, message \in OracleErrors : OracleFails(p, message)
    \/ \E p \in Procs : WriteAttempt(p)
    \/ \E p \in Procs : WritePlan(p)
    \/ \E p \in Procs : WriteFails(p)
    \/ \E p \in Procs : SweepNoUser(p)
    \/ \E p \in Procs : SweepBegin(p)
    \/ \E p \in Procs : SweepDelete(p)
    \/ \E p \in Procs : SweepFails(p)
    \/ AdvanceClock

\* The life of the plans collection: upserts, sweeps and the passing of time.
Spec == Init /\ [][Next]_vars

\* -------------------------------------------------------------------------
\* Specification of the queries: the pure expansion functions applied to the
\* documents upsert writes
\* -------------------------------------------------------------------------
\* The documents one upsert call leaves in an empty collection, and the ones
\* a second call for the same id leaves when it writes the heuristic planDoc
\* over a generated one.
WrittenDocs(roll) ==
    LET valid == {req \in Requests \cup {EarlyRiceRequest} :
                     parseLooseDate(req.plantingDate, roll) # NullDate}
        heuristic(req) ==
            LET planting == parseLooseDate(req.plantingDate, roll)
            IN  HeuristicPlanDoc(req, PlanIdOf(req, planting), planting, UpsertExpectedHarvest(req, roll))
        generated(req) ==
            LET planting == parseLooseDate(req.plantingDate, roll)
            IN  {GeneratedPlanDoc(req, PlanIdOf(req, planting), planting,
                                  UpsertExpectedHarvest(req, roll), g, roll) :
                    g \in OracleResponses(planting)}
    IN  {MergedDoc(EmptyDoc, heuristic(req)) : req \in valid}
        \cup UNION {{MergedDoc(EmptyDoc, g) : g \in generated(req)} : req \in valid}
        \cup UNION {{MergedDoc(MergedDoc(EmptyDoc, g), heuristic(req)) : g \in generated(req)} : req \in valid}

QueryStores(roll) ==
    {<<>>} \cup {SetDocMerge(<<>>, d.id, d) : d \in WrittenDocs(roll)}

InitQuery ==
    /\ geminiConfigured = TRUE
    /\ signedIn \in BOOLEAN
    /\ rollover \in BOOLEAN
    /\ store \in QueryStores(rollover)
    /\ today = FirstToday
    /\ clockSteps = 0
    /\ pc = [p \in Procs |-> "idle"]
    /\ call = [p \in Procs |-> NoCall]
    /\ ret = [p \in Procs |-> NoRet]
    /\ calls = 0
    /\ sweepDocs = [p \in Procs |-> {}]
    /\ sweepDeleted = [p \in Procs |-> 0]
    /\ sweepStart = [p \in Procs |-> NoSweepStart]
    /\ sink = <<>>
    /\ storedIds = <<>>
    /\ proj = [p \in Procs |-> NoProj]
    /\ nextId = 1
    /\ projCalls = 0
    /\ q = NoQuery
    /\ prev = NoPrev
    /\ attemptedIds = {}

NextQuery ==
    \/ \E id \in DOMAIN store \cup {UnknownId}, startISO \in QueryDates, endISO \in QueryDates,
          language \in QueryLanguages : QueryRange(id, startISO, endISO, language)
    \/ \E windowDays \in WindowDaysInputs, language \in QueryLanguages :
          QueryUpcoming(windowDays, language)
    \/ AdvanceClock

SpecQuery == InitQuery /\ [][NextQuery]_vars

\* Specification of the split queries: the range query applied to a stored
\* plan's whole range and to the two parts of it.
NextSplit ==
    \E id \in DOMAIN store, midISO \in SplitDates, language \in QueryLanguages :
        QuerySplit(id, midISO, language)

SpecSplit == InitQuery /\ [][NextSplit]_vars

\* Specification of the range queries over a first plan: the collection holds
\* the one plan a first upsert call has written with the oracle not
\* configured, and ret holds that call's parameters and result.
InitFirstPlan ==
    /\ geminiConfigured = FALSE
    /\ signedIn = TRUE
    /\ rollover \in BOOLEAN
    /\ today = FirstToday
    /\ clockSteps = 0
    /\ pc = [p \in Procs |-> "idle"]
    /\ call = [p \in Procs |-> NoCall]
    /\ calls = 1
    /\ sweepDocs = [p \in Procs |-> {}]
    /\ sweepDeleted = [p \in Procs |-> 0]
    /\ sweepStart = [p \in Procs |-> NoSweepStart]
    /\ sink = <<>>
    /\ storedIds = <<>>
    /\ proj = [p \in Procs |-> NoProj]
    /\ nextId = 1
    /\ projCalls = 0
    /\ q = NoQuery
    /\ attemptedIds = {}
    /\ \E req \in Requests :
          LET written(planting, planId) ==
                  /\ store = SetDocMerge(<<>>, planId,
                                 HeuristicPlanDoc(req, planId, planting, UpsertExpectedHarvest(req, rollover)))
                  /\ ret = [p \in Procs |->
                               [kind |-> "ok", call |-> 1, req |-> req, planId |-> planId, deleted |-> 0]]
                  /\ prev = [valid |-> TRUE, req |-> req, planId |-> planId, oracle |-> FALSE,
                             oracleFailed |-> FALSE, repeat |-> FALSE, firstOracle |-> FALSE]
              first(planting) == written(planting, PlanIdOf(req, planting))
          IN  /\ parseLooseDate(req.plantingDate, rollover) # NullDate
              /\ first(parseLooseDate(req.plantingDate, rollover))

NextFirstPlan ==
    \E id \in DOMAIN store \cup {UnknownId}, startISO \in QueryDates, endISO \in QueryDates,
       language \in QueryLanguages : QueryRange(id, startISO, endISO, language)

SpecFirstPlan == InitFirstPlan /\ [][NextFirstPlan]_vars

\* Specification of interleaved sweeps: two callers sweep, on one day, a
\* collection of one or two documents upsert has written.
SweepStores(roll) ==
    {SetDocMerge(SetDocMerge(<<>>, a.id, a), b.id, b) :
        a \in WrittenDocs(roll), b \in {d \in WrittenDocs(roll) : d.source = "heuristic"}}

InitSweep ==
    /\ geminiConfigured = TRUE
    /\ signedIn \in BOOLEAN
    /\ rollover \in BOOLEAN
    /\ store \in SweepStores(rollover)
    /\ today = FirstToday
    /\ clockSteps = 0
    /\ pc = [p \in Callers |-> "idle"]
    /\ call = [p \in Callers |-> NoCall]
    /\ ret = [p \in Callers |-> NoRet]
    /\ calls = 0
    /\ sweepDocs = [p \in Callers |-> {}]
    /\ sweepDeleted = [p \in Callers |-> 0]
    /\ sweepStart = [p \in Callers |-> NoSweepStart]
    /\ sink = <<>>
    /\ storedIds = <<>>
    /\ proj = [p \in Callers |-> NoProj]
    /\ nextId = 1
    /\ projCalls = 0
    /\ q = NoQuery
    /\ prev = NoPrev
    /\ attemptedIds = {}

NextSweep ==
    \/ \E p \in Callers : SweepNoUser(p)
    \/ \E p \in Callers : SweepBegin(p)
    \/ \E p \in Callers : SweepDelete(p)
    \/ \E p \in Callers : SweepFails(p)

SpecSweep == InitSweep /\ [][NextSweep]_vars

\* Specification of the notification projection: one caller projects the
\* heuristic rice plan, or a plan that is not stored, over windows of 1, 45 and
\* 120 days.  The dates of the plan are ISO dates that every engine parses alike.
RicePlanStore ==
    LET planting == parseLooseDate(BaseRequest.plantingDate, FALSE)
        doc == HeuristicPlanDoc(BaseRequest, PlanIdOf(BaseRequest, planting), planting,
                                UpsertExpectedHarvest(BaseRequest, FALSE))
    IN  SetDocMerge(<<>>, doc.id, doc)

InitProject ==
    /\ geminiConfigured = FALSE
    /\ signedIn = TRUE
    /\ rollover = FALSE
    /\ store = RicePlanStore
    /\ today = FirstToday
    /\ clockSteps = 0
    /\ pc = [p \in Procs |-> "idle"]
    /\ call = [p \in Procs |-> NoCall]
    /\ ret = [p \in Procs |-> NoRet]
    /\ calls = 0
    /\ sweepDocs = [p \in Procs |-> {}]
    /\ sweepDeleted = [p \in Procs |-> 0]
    /\ sweepStart = [p \in Procs |-> NoSweepStart]
    /\ sink = <<>>
    /\ storedIds = <<>>
    /\ proj = [p \in Procs |-> NoProj]
    /\ nextId = 1
    /\ projCalls = 0
    /\ q = NoQuery
    /\ prev = NoPrev
    /\ attemptedIds = {}

\* The ids of the plans projected: the one of the rice plan and an unknown one.
ProjectIds == DOMAIN RicePlanStore \cup {UnknownId}

NextProject ==
    \/ \E p \in Procs, planId \in ProjectIds, windowDays \in ProjectWindowInputs,
          language \in QueryLanguages, nowMinutes \in NowMinutesInputs :
          ProjectBegin(p, planId, windowDays, language, nowMinutes)
    \/ \E p \in Procs : ProjectCancel(p)
    \/ \E p \in Procs, failAt \in ScheduleFailureInputs : ProjectSchedule(p, failAt)
    \/ \E p \in Procs : ProjectStore(p)
    \/ \E p \in Procs : ProjectStoreFails(p)

SpecProject == InitProject /\ [][NextProject]_vars

\* Specification of interleaved projections: two callers project the rice plan
\* over a window of one day, at 07:00 or at 13:00; every request to the
\* scheduler and to AsyncStorage succeeds.
InitReproject ==
    /\ geminiConfigured = FALSE
    /\ signedIn = TRUE
    /\ rollover = FALSE
    /\ store = RicePlanStore
    /\ today = FirstToday
    /\ clockSteps = 0
    /\ pc = [p \in Callers |-> "idle"]
    /\ call = [p \in Callers |-> NoCall]
    /\ ret = [p \in Callers |-> NoRet]
    /\ calls = 0
    /\ sweepDocs = [p \in Callers |-> {}]
    /\ sweepDeleted = [p \in Callers |-> 0]
    /\ sweepStart = [p \in Callers |-> NoSweepStart]
    /\ sink = <<>>
    /\ storedIds = <<>>
    /\ proj = [p \in Callers |-> NoProj]
    /\ nextId = 1
    /\ projCalls = 0
    /\ q = NoQuery
    /\ prev = NoPrev
    /\ attemptedIds = {}

NextReproject ==
    \/ \E p \in Callers, planId \in DOMAIN RicePlanStore, language \in QueryLanguages,
          nowMinutes \in NowMinutesInputs : ProjectBegin(p, planId, <<0>>, language, nowMinutes)
    \/ \E p \in Callers : ProjectCancel(p)
    \/ \E p \in Callers : ProjectSchedule(p, 0)
    \/ \E p \in Callers : ProjectStore(p)

SpecReproject == InitReproject /\ [][NextReproject]_vars

\* Specification of the queries over a generated plan whose cadence rules
\* carry the stop sentinel: the oracle answers the base request with a plan of
\* 20 days that waters every 3 days up to day 6, has a watering rule and a
\* recurring task with everyDays 9999 from day 7 on, a recurring task with
\* the title of the watering rule on days 0 and 6, and a one-off task on day 0
\* whose title starts in lower case.
SentinelResponse(plantingDate) ==
    [title |-> <<"Season plan", "", "">>,
     overview |-> <<"Season overview", "", "">>,
     dates |-> [plantingDateISO |-> toISODate(plantingDate),
                expectedHarvestDateISO |-> toISODate(addDays(plantingDate, 20))],
     wateringRules |-> << [startDay |-> 0, endDay |-> 6, everyDays |-> 3,
                           title |-> <<"Irrigate", "", "">>],
                          [startDay |-> 7, endDay |-> 20, everyDays |-> StopSentinel,
                           title |-> <<"Irrigate", "", "">>] >>,
     recurringTasks |-> << [type |-> "disease", title |-> <<"Scout field", "", "">>,
                            startDay |-> 7, endDay |-> 20, everyDays |-> StopSentinel],
                           [type |-> "field", title |-> <<"Irrigate", "", "">>,
                            startDay |-> 0, endDay |-> 6, everyDays |-> 6] >>,
     oneOffTasks |-> << [type |-> "fertilizer", title |-> <<"Apply urea", "", "">>,
                         dueDateISO |-> toISODate(addDays(plantingDate, 10))],
                        [type |-> "fertilizer", title |-> <<"apply lime", "", "">>,
                         dueDateISO |-> toISODate(plantingDate)] >>]

SentinelStore(roll) ==
    LET planting == parseLooseDate(BaseRequest.plantingDate, roll)
        doc == GeneratedPlanDoc(BaseRequest, PlanIdOf(BaseRequest, planting), planting,
                                UpsertExpectedHarvest(BaseRequest, roll), SentinelResponse(planting), roll)
    IN  SetDocMerge(<<>>, doc.id, MergedDoc(EmptyDoc, doc))

InitSentinel ==
    /\ geminiConfigured = TRUE
    /\ signedIn \in BOOLEAN
    /\ rollover \in BOOLEAN
    /\ store = SentinelStore(rollover)
    /\ today = FirstToday
    /\ clockSteps = 0
    /\ pc = [p \in Procs |-> "idle"]
    /\ call = [p \in Procs |-> NoCall]
    /\ ret = [p \in Procs |-> NoRet]
    /\ calls = 0
    /\ sweepDocs = [p \in Procs |-> {}]
    /\ sweepDeleted = [p \in Procs |-> 0]
    /\ sweepStart = [p \in Procs |-> NoSweepStart]
    /\ sink = <<>>
    /\ storedIds = <<>>
    /\ proj = [p \in Procs |-> NoProj]
    /\ nextId = 1
    /\ projCalls = 0
    /\ q = NoQuery
    /\ prev = NoPrev
    /\ attemptedIds = {}

SpecSentinel == InitSentinel /\ [][NextQuery]_vars

\* Specification of the ranking of the active plans: the collection holds two
\* plans upsert has written, heuristic or generated, for rice planted
\* 2024-06-01 or 2024-02-20 and for tomato, each last written today or the day
\* before.
RankRequests ==
    {BaseRequest, EarlyRiceRequest} \cup {[BaseRequest EXCEPT !.cropType = c, !.cropName = c] : c \in CropInputs}

RankDocs(roll) ==
    LET planting(req) == parseLooseDate(req.plantingDate, roll)
        heuristic(req) ==
            HeuristicPlanDoc(req, PlanIdOf(req, planting(req)), planting(req), UpsertExpectedHarvest(req, roll))
        generated(req) ==
            {GeneratedPlanDoc(req, PlanIdOf(req, planting(req)), planting(req),
                              UpsertExpectedHarvest(req, roll), g, roll) :
                g \in OracleResponses(planting(req))}
        written == {MergedDoc(EmptyDoc, heuristic(req)) : req \in RankRequests}
                   \cup UNION {{MergedDoc(EmptyDoc, g) : g \in generated(req)} : req \in RankRequests}
    IN  {d @@ [updatedAt |-> u] : d \in written, u \in {addDays(FirstToday, 0 - 1), FirstToday}}

RankStores(roll) ==
    {[id \in {a.id, b.id} |-> IF id = a.id THEN a ELSE b] : a \in RankDocs(roll), b \in RankDocs(roll)}

InitRank ==
    /\ geminiConfigured = TRUE
    /\ signedIn \in BOOLEAN
    /\ rollover \in BOOLEAN
    /\ store \in RankStores(rollover)
    /\ today = FirstToday
    /\ clockSteps = 0
    /\ pc = [p \in Procs |-> "idle"]
    /\ call = [p \in Procs |-> NoCall]
    /\ ret = [p \in Procs |-> NoRet]
    /\ calls = 0
    /\ sweepDocs = [p \in Procs |-> {}]
    /\ sweepDeleted = [p \in Procs |-> 0]
    /\ sweepStart = [p \in Procs |-> NoSweepStart]
    /\ sink = <<>>
    /\ storedIds = <<>>
    /\ proj = [p \in Procs |-> NoProj]
    /\ nextId = 1
    /\ projCalls = 0
    /\ q = NoQuery
    /\ prev = NoPrev
    /\ attemptedIds = {}

NextRank ==
    \/ \E language \in QueryLanguages : QueryActivePlans(language)
    \/ AdvanceClock

SpecRank == InitRank /\ [][NextRank]_vars

\* Specification of upserts over a completed plan: the collection holds the
\* heuristic rice plan, whose status has been set to completed.
CompletedPlanStore ==
    [id \in DOMAIN RicePlanStore |-> [RicePlanStore[id] EXCEPT !.status = "completed"]]

InitCompleted ==
    /\ store = CompletedPlanStore
    /\ today = FirstToday
    /\ clockSteps = 0
    /\ geminiConfigured \in BOOLEAN
    /\ signedIn = TRUE
    /\ rollover \in BOOLEAN
    /\ pc = [p \in Procs |-> "idle"]
    /\ call = [p \in Procs |-> NoCall]
    /\ ret = [p \in Procs |-> NoRet]
    /\ calls = 0
    /\ sweepDocs = [p \in Procs |-> {}]
    /\ sweepDeleted = [p \in Procs |-> 0]
    /\ sweepStart = [p \in Procs |-> NoSweepStart]
    /\ sink = <<>>
    /\ storedIds = <<>>
    /\ proj = [p \in Procs |-> NoProj]
    /\ nextId = 1
    /\ projCalls = 0
    /\ q = NoQuery
    /\ prev = NoPrev
    /\ attemptedIds = {}

NextCompleted ==
    \/ \E p \in Procs, req \in Requests : UpsertInvalidDate(p, req)
    \/ \E p \in Procs, req \in Requests : UpsertBegin(p, req)
    \/ \E p \in Procs, req \in Requests : UpsertReadFails(p, req)
    \/ \E p \in Procs : OracleSucceeds(p)
    \/ \E p \in Procs, message \in OracleErrors : OracleFails(p, message)
    \/ \E p \in Procs : WriteAttempt(p)
    \/ \E p \in Procs : WritePlan(p)
    \/ \E p \in Procs : WriteFails(p)

SpecCompleted == InitCompleted /\ [][NextCompleted]_vars

\* Specification of interleaved upserts: two callers make the call for the
\* same parameters on an empty collection, and no storage call rejects.
RaceRequests == {BaseRequest}

InitRace ==
    /\ store = <<>>
    /\ today = FirstToday
    /\ clockSteps = 0
    /\ geminiConfigured \in BOOLEAN
    /\ signedIn = TRUE
    /\ rollover \in BOOLEAN
    /\ pc = [p \in Callers |-> "idle"]
    /\ call = [p \in Callers |-> NoCall]
    /\ ret = [p \in Callers |-> NoRet]
    /\ calls = 0
    /\ sweepDocs = [p \in Callers |-> {}]
    /\ sweepDeleted = [p \in Callers |-> 0]
    /\ sweepStart = [p \in Callers |-> NoSweepStart]
    /\ sink = <<>>
    /\ storedIds = <<>>
    /\ proj = [p \in Callers |-> NoProj]
    /\ nextId = 1
    /\ projCalls = 0
    /\ q = NoQuery
    /\ prev = NoPrev
    /\ attemptedIds = {}

NextRace ==
    \/ \E p \in Callers, req \in RaceRequests : UpsertBegin(p, req)
    \/ \E p \in Callers : OracleSucceeds(p)
    \/ \E p \in Callers, message \in OracleErrors : OracleFails(p, message)
    \/ \E p \in Callers : WriteAttempt(p)
    \/ \E p \in Callers : WritePlan(p)

SpecRace == InitRace /\ [][NextRace]_vars

\* The documents one whole upsert call may leave under its plan id when it
\* runs alone on a collection that holds existing under that id: the
\* generated plan, the recorded attempt with the fallback plan merged over
\* it, or the heuristic plan.
UpsertOutcomes(existing, req, configured, roll) ==
    LET outcomes(planting, planId, expectedHarvest) ==
            IF ShouldGenerate(configured, existing)
            THEN {MergedDoc(existing, GeneratedPlanDoc(req, planId, planting, expectedHarvest,
                                                       generated, roll)) :
                      generated \in OracleResponses(planting)}
                 \cup {MergedDoc(MergedDoc(existing, AttemptDoc(OrText(message, GenericGeminiError))),
                                 FallbackPlanDoc(req, planId, planting, expectedHarvest, existing)) :
                           message \in OracleErrors}
            ELSE {MergedDoc(existing, HeuristicPlanDoc(req, planId, planting, expectedHarvest))}
        whole(planting) == outcomes(planting, PlanIdOf(req, planting), UpsertExpectedHarvest(req, roll))
    IN  whole(parseLooseDate(req.plantingDate, roll))

\* The documents two whole calls, first then second, may leave on an empty
\* collection.
SequentialOutcomes(first, second, configured, roll) ==
    UNION {UpsertOutcomes(doc, second, configured, roll) :
              doc \in UpsertOutcomes(EmptyDoc, first, configured, roll)}

\* -------------------------------------------------------------------------
\* Properties
\* -------------------------------------------------------------------------
\* A document that holds a plan: rule collections, dates and status.
IsFullPlan(doc) == doc.status # ""

\* A document that holds nothing but the record of a generation attempt.
IsAttemptOnly(doc) == doc.geminiGenerationAttempted /\ doc.status = ""

\* The text names a day that exists in the calendar.
IsRealCalendarDate(text) ==
    \/ /\ IsISOForm(text)
       /\ text[2] \in 1..12
       /\ text[3] \in 1..DaysInMonth(text[1], text[2])
    \/ /\ IsDMYForm(text)
       /\ text[3] \in 1..12
       /\ text[2] \in 1..DaysInMonth(text[4], text[3])

\* p's upsert call returns { planId } in this step.
UpsertReturns(p) == pc[p] = "write" /\ pc'[p] = "idle" /\ ret'[p].kind = "ok"

\* C1: of two successive upsert calls with the same parameters that both
\* return, the second returns the planId the first returned, exactly one
\* document, a full plan, is stored under that id, and at most one of the two
\* calls invoked the oracle.
C1_UpsertIdempotent ==
    [][\A p \in Procs :
        (UpsertReturns(p) /\ call[p].first.valid /\ call[p].first.req = call[p].req)
        => /\ ret'[p].planId = call[p].first.planId
           /\ Cardinality({id \in DOMAIN store' : store'[id].id = ret'[p].planId}) = 1
           /\ ret'[p].planId \in DOMAIN store'
           /\ IsFullPlan(store'[ret'[p].planId])
           /\ ~(call[p].first.oracle /\ call[p].oracle)]_vars

\* The second of two successive identical calls has returned, the first one
\* having invoked the oracle.
C1_Witness == prev.valid /\ prev.repeat /\ prev.firstOracle /\ ~prev.oracle

\* C2: an upsert call that finds a plan with generated content under its id
\* leaves that document as it found it.
C2_ExistingPlanUnchanged ==
    [][\A p \in Procs :
        (UpsertReturns(p) /\ hasGeminiContent(call[p].existing) /\ IsFullPlan(call[p].existing))
        => store'[call[p].planId] = call[p].existing]_vars

\* C3, as claimed: a call that starts after an attempt was recorded for its
\* plan id never invokes the oracle.
C3_NeverRetried ==
    \A p \in Procs : pc[p] = "oracle" => ~call[p].afterAttempt

\* C3, amended: a call that reads a document with a recorded attempt under
\* its plan id does not invoke the oracle and hands the heuristic rule
\* collections to setDoc.
C3_NoRetryWhileRecorded ==
    [][\A p \in Procs :
        (/\ pc[p] = "idle"
         /\ pc'[p] \in {"oracle", "write"}
         /\ ReadDoc(store, call'[p].planId).geminiGenerationAttempted)
        => LET c == call'[p]
               base == buildHeuristicPlan(UpsertCropType(c.req),
                                          OrText(UpsertCropName(c.req), UpsertCropType(c.req)),
                                          c.req.areaAcres, c.planting, c.expectedHarvest)
           IN  /\ pc'[p] = "write"
               /\ ~c.oracle
               /\ c.pending.wateringRules = base.wateringRules
               /\ c.pending.recurringTasks = base.recurringTasks
               /\ c.pending.tasks = base.tasks]_vars

\* A call is writing the heuristic plan because, of all that keeps the oracle
\* from being invoked, only the recorded attempt holds.
C3_Witness ==
    \E p \in Procs :
        /\ pc[p] = "write"
        /\ geminiConfigured
        /\ call[p].existing.geminiGenerationAttempted
        /\ ~hasGeminiContent(call[p].existing)
        /\ ~call[p].oracle

\* C4: a call whose oracle invocation failed and whose writes are applied
\* returns its planId, and the document under that id holds the rule
\* collections of the heuristic builder.
C4_OracleFailureAbsorbed ==
    [][\A p \in Procs :
        (/\ call[p].oracleFailed
         /\ pc[p] \in {"recordAttempt", "write"}
         /\ pc'[p] = "idle"
         /\ ret'[p].kind # "StorageError")
        => LET c == call[p]
               base == buildHeuristicPlan(UpsertCropType(c.req),
                                          OrText(UpsertCropName(c.req), UpsertCropType(c.req)),
                                          c.req.areaAcres, c.planting, c.expectedHarvest)
           IN  /\ ret'[p].kind = "ok"
               /\ ret'[p].planId = c.planId
               /\ c.planId \in DOMAIN store'
               /\ store'[c.planId].wateringRules = base.wateringRules
               /\ store'[c.planId].recurringTasks = base.recurringTasks
               /\ store'[c.planId].tasks = base.tasks]_vars

\* A call whose oracle invocation failed has returned its planId.
C4_Witness ==
    /\ prev.valid
    /\ prev.oracleFailed
    /\ prev.planId \in DOMAIN store
    /\ Len(store[prev.planId].wateringRules) > 0

\* C5: an upsert call made with no user signed in, or with a planting date
\* that is not a real calendar date, ends at once in an AuthError or a
\* ValidationError.
C5_InvalidInputAborts ==
    \A p \in Procs :
        (ret[p].call > 0 /\ (~signedIn \/ ~IsRealCalendarDate(ret[p].req.plantingDate)))
        => ret[p].kind \in {"AuthError", "ValidationError"}

\* C6: an upsert call made with an area that is not greater than 0 does not
\* return a planId, and no plan with such an area is stored.
C6_NonPositiveAreaRejected ==
    /\ \A p \in Procs : (ret[p].kind = "ok") => ret[p].req.areaAcres > 0
    /\ \A id \in DOMAIN store : IsFullPlan(store[id]) => store[id].areaAcres > 0

\* C7: when no call is in progress, no stored document holds only the record
\* of a generation attempt: a call whose write failed left nothing behind.
C7_NoPartialWrite ==
    (\A p \in Procs : pc[p] = "idle")
    => \A id \in DOMAIN store : ~IsAttemptOnly(store[id])

\* C8: every stored plan has its expectedHarvestDate strictly after its
\* plantingDate.
C8_HarvestAfterPlanting ==
    \A id \in DOMAIN store :
        IsFullPlan(store[id])
        => ISOLess(store[id].plantingDateISO, store[id].expectedHarvestDateISO)

\* C9: in every stored plan every watering rule and every recurring task
\* rule has startDay <= endDay and everyDays >= 1.
C9_RulesWellFormed ==
    \A id \in DOMAIN store :
        /\ \A i \in 1..Len(store[id].wateringRules) :
              LET w == store[id].wateringRules[i]
              IN  w.startDay <= w.endDay /\ w.everyDays >= 1
        /\ \A i \in 1..Len(store[id].recurringTasks) :
              LET r == store[id].recurringTasks[i]
              IN  r.startDay <= r.endDay /\ r.everyDays >= 1

\* C10: every task instance a query returns for a plan whose harvest date is
\* not before its planting date is due within [plantingDate, expectedHarvestDate]
\* of that plan.
C10_InstancesWithinPlan ==
    \A i \in 1..Len(q.result) :
        LET plan == store[q.result[i].planId]
        IN  ISOLeq(plan.plantingDateISO, plan.expectedHarvestDateISO)
            => /\ ISOLeq(plan.plantingDateISO, q.result[i].dueDateISO)
               /\ ISOLeq(q.result[i].dueDateISO, plan.expectedHarvestDateISO)

\* The set of the instances of a list.
InstanceSet(list) == {list[i] : i \in 1..Len(list)}

\* C11: for a stored plan and a day that splits [plantingDate, harvestDate]
\* into two adjacent windows, the instances of the range query over the first
\* window together with those over the second are, as a set, the instances of
\* the range query over the whole range.
C11_SplitWindowsCoverRange ==
    q.kind = "split" => InstanceSet(q.left) \cup InstanceSet(q.right) = InstanceSet(q.result)

\* A split query has answered with instances on both sides of the boundary,
\* among them a cadence occurrence in the second window of a rule whose first
\* occurrence lies in the first window.
C11_Witness ==
    /\ q.kind = "split"
    /\ \E i \in 1..Len(q.left), j \in 1..Len(q.right) :
          /\ q.left[i].title = q.right[j].title
          /\ q.left[i].type = "field"
          /\ q.left[i].dueDateISO # q.startISO

\* The cadence rules of a plan that expandInRangeFromRules walks: the recurring
\* tasks, and the watering rules it does not skip (their instances have type
\* "watering").
CadenceRules(plan) ==
    {[type |-> plan.recurringTasks[i].type, startDay |-> plan.recurringTasks[i].startDay,
      endDay |-> plan.recurringTasks[i].endDay, everyDays |-> plan.recurringTasks[i].everyDays] :
        i \in 1..Len(plan.recurringTasks)}
    \cup {[type |-> "watering", startDay |-> plan.wateringRules[i].startDay,
           endDay |-> plan.wateringRules[i].endDay, everyDays |-> plan.wateringRules[i].everyDays] :
             i \in {j \in 1..Len(plan.wateringRules) : plan.wateringRules[j].everyDays < StopSentinel}}

\* The dates plantingDate + startDay + k * everyDays (k >= 0) of a rule that are
\* not after plantingDate + endDay and lie in [startISO, endISO].
GridDatesInWindow(planting, rule, startISO, endISO) ==
    {due \in {toISODate(addDays(planting, rule.startDay + k * rule.everyDays)) :
                 k \in 0..((rule.endDay - rule.startDay) \div rule.everyDays)} :
        ISOLeq(startISO, due) /\ ISOLeq(due, endISO)}

\* C12: for a plan whose cadence rules all have everyDays >= 1, the instances a
\* range query returns for a rule are exactly the dates
\* plantingDate + startDay + k * everyDays (k >= 0) that lie in the requested
\* window, are not after plantingDate + endDay and lie within the plan's
\* [plantingDate, expectedHarvestDate]: each such date is returned with the
\* rule's type, and every returned instance is such a date of a rule of its
\* type or a one-off task of the plan.
C12_OccurrencesOnGridInWindow ==
    (q.kind = "range" /\ signedIn /\ q.planId \in DOMAIN store) =>
        LET plan == store[q.planId]
            planting == parseLooseDate(plan.plantingDateISO, rollover)
            due(r) == {d \in GridDatesInWindow(planting, r, q.startISO, q.endISO) :
                          /\ ISOLeq(plan.plantingDateISO, d)
                          /\ ISOLeq(d, plan.expectedHarvestDateISO)}
        IN  (\A r \in CadenceRules(plan) : r.everyDays >= 1) =>
                /\ \A r \in CadenceRules(plan) : \A d \in due(r) :
                      \E i \in 1..Len(q.result) :
                          q.result[i].type = r.type /\ q.result[i].dueDateISO = d
                /\ \A i \in 1..Len(q.result) :
                      \/ \E t \in 1..Len(plan.tasks) :
                            /\ plan.tasks[t].type = q.result[i].type
                            /\ plan.tasks[t].dueDateISO = q.result[i].dueDateISO
                      \/ \E r \in CadenceRules(plan) :
                            r.type = q.result[i].type /\ q.result[i].dueDateISO \in due(r)

\* C13: every instance of type "watering" a query returns is due on an
\* occurrence of a watering rule whose everyDays is below the stop sentinel,
\* or of a recurring task, or on a one-off task of its plan, so a rule with the
\* stop sentinel contributes no instance to the range query or to the
\* upcoming query.
C13_StopRuleEmitsNothing ==
    \A i \in 1..Len(q.result) :
        LET t == q.result[i]
            plan == store[t.planId]
            planting == parseLooseDate(plan.plantingDateISO, rollover)
        IN  t.type = "watering" =>
                \/ \E k \in 1..Len(plan.tasks) :
                      plan.tasks[k].type = "watering" /\ plan.tasks[k].dueDateISO = t.dueDateISO
                \/ \E r \in CadenceRules(plan) :
                      /\ r.type = "watering"
                      /\ r.everyDays >= 1
                      /\ t.dueDateISO \in GridDatesInWindow(planting, r, t.dueDateISO, t.dueDateISO)

\* A range query has answered with watering instances for a plan over a window
\* that holds the first day of a stop-sentinel rule of the plan, a day no other
\* rule and no one-off task of the plan falls on.
C13_Witness ==
    /\ q.kind = "range" /\ signedIn /\ q.planId \in DOMAIN store
    /\ \E i \in 1..Len(q.result) : q.result[i].type = "watering"
    /\ LET plan == store[q.planId]
           planting == parseLooseDate(plan.plantingDateISO, rollover)
       IN  \E j \in 1..Len(plan.wateringRules) :
              LET w == plan.wateringRules[j]
                  stopDay == toISODate(addDays(planting, w.startDay))
              IN  /\ w.everyDays >= StopSentinel
                  /\ w.startDay <= w.endDay
                  /\ ISOLeq(q.startISO, stopDay) /\ ISOLeq(stopDay, q.endISO)
                  /\ ISOLeq(stopDay, plan.expectedHarvestDateISO)
                  /\ \A r \in CadenceRules(plan) :
                        r.everyDays >= 1 => stopDay \notin GridDatesInWindow(planting, r, stopDay, stopDay)
                  /\ \A k \in 1..Len(plan.tasks) : plan.tasks[k].dueDateISO # stopDay

\* C14: every instance a range query over [startISO, endISO] returns is due
\* within [startISO, endISO], also when the window lies before the plan's
\* planting date or after its harvest date.
C14_InstancesWithinWindow ==
    q.kind = "range" =>
        \A i \in 1..Len(q.result) :
            /\ ISOLeq(q.startISO, q.result[i].dueDateISO)
            /\ ISOLeq(q.result[i].dueDateISO, q.endISO)

\* The stored plan is the heuristic plan of rice planted 2024-06-01 with no
\* harvest override, and the latest query is the range query for it over
\* [2024-06-01, 2024-06-01].
RiceExampleQueried(startISO, endISO) ==
    /\ q.kind = "range" /\ signedIn /\ q.planId \in DOMAIN store
    /\ q.startISO = startISO /\ q.endISO = endISO
    /\ store[q.planId].source = "heuristic"
    /\ store[q.planId].cropName = "rice"
    /\ store[q.planId].plantingDateISO = <<2024, 6, 1>>
    /\ store[q.planId].expectedHarvestDateISO = <<2024, 9, 29>>
    /\ store[q.planId].geminiGenerationAttempted = FALSE

\* The types, titles and due dates of a list of instances, in its order.
InstanceSummary(list) ==
    [i \in 1..Len(list) |-> <<list[i].type, list[i].title, list[i].dueDateISO>>]

\* C15 as stated: for the heuristic rice plan planted 2024-06-01 the range
\* query over [2024-06-01, 2024-06-01] returns exactly one instance, the day-0
\* basal fertilization task.
C15_OnlyBasalFertilization ==
    RiceExampleQueried(<<2024, 6, 1>>, <<2024, 6, 1>>) =>
        InstanceSummary(q.result) =
            << <<"fertilizer", "Basal fertilization (FYM/compost + recommended NPK) and zinc if needed",
                 <<2024, 6, 1>>>> >>

\* C15: for the heuristic rice plan planted 2024-06-01 the range query over
\* [2024-06-01, 2024-06-01] returns exactly three instances due 2024-06-01, in
\* this order: the basal fertilization task, the monsoon drainage check and
\* the daily watering of the first thirty days.
C15_DayZeroInstances ==
    RiceExampleQueried(<<2024, 6, 1>>, <<2024, 6, 1>>) =>
        InstanceSummary(q.result) =
            << <<"fertilizer", "Basal fertilization (FYM/compost + recommended NPK) and zinc if needed",
                 <<2024, 6, 1>>>>,
               <<"field", "Check drainage & remove standing water (monsoon)", <<2024, 6, 1>>>>,
               <<"watering", "Water/irrigate (as per stage)", <<2024, 6, 1>>>> >>

\* The range query over the planting day of the rice example has answered.
C15_Witness ==
    /\ RiceExampleQueried(<<2024, 6, 1>>, <<2024, 6, 1>>)
    /\ Len(q.result) > 0

\* p's latest upsert call was for rice planted 2024-06-01 with no harvest
\* override and returned, and the latest query is a range query for its plan.
RiceExampleUpserted(p) ==
    /\ ret[p].kind = "ok"
    /\ ret[p].req.cropName = "rice"
    /\ ret[p].req.plantingDate = <<2024, 6, 1>>
    /\ ret[p].req.expectedHarvestDate = NoText
    /\ ret[p].planId \in DOMAIN store
    /\ q.kind = "range" /\ q.planId = ret[p].planId

ScoutingTitle == "Field scouting (pests, disease, weeds, moisture)"

\* A query result holds a scouting instance due on due.
ScoutingOn(result, due) ==
    \E i \in 1..Len(result) : result[i].title = ScoutingTitle /\ result[i].dueDateISO = due

\* C16: the heuristic plan of rice planted 2024-06-01 with no harvest override
\* has maturity 120 days (the last day of its scouting rule) and harvest date
\* 2024-09-29, and a range query for it returns a field-scouting instance on
\* 2024-06-08 and on 2024-06-15 whenever the window holds that day, and none
\* on 2024-06-10.
C16_RiceExampleScouting ==
    \A p \in Procs :
        RiceExampleUpserted(p) =>
            LET plan == store[ret[p].planId]
                inQuery(due) == ISOLeq(q.startISO, due) /\ ISOLeq(due, q.endISO)
            IN  /\ plan.expectedHarvestDateISO = <<2024, 9, 29>>
                /\ \E i \in 1..Len(plan.recurringTasks) :
                      /\ plan.recurringTasks[i].title = ScoutingTitle
                      /\ plan.recurringTasks[i].endDay = 120
                /\ inQuery(<<2024, 6, 8>>) => ScoutingOn(q.result, <<2024, 6, 8>>)
                /\ inQuery(<<2024, 6, 15>>) => ScoutingOn(q.result, <<2024, 6, 15>>)
                /\ ~ScoutingOn(q.result, <<2024, 6, 10>>)

\* The range query over [2024-06-01, 2024-06-25], which holds the three days,
\* has answered for the rice example with scouting instances.
C16_Witness ==
    \E p \in Procs :
        /\ RiceExampleUpserted(p)
        /\ q.startISO = <<2024, 6, 1>> /\ q.endISO = <<2024, 6, 25>>
        /\ \E i \in 1..Len(q.result) : q.result[i].title = ScoutingTitle

\* p's sweep returns { deleted } in this step: after its last deleteDoc, or at
\* once when its query matched no document.
SweepReturns(p) ==
    /\ signedIn
    /\ \/ pc[p] = "sweep"
       \/ pc[p] = "idle" /\ sweepDocs'[p] = {} /\ calls' = calls /\ today' = today
    /\ pc'[p] = "idle"
    /\ ret'[p].kind = "swept"

\* C17: when a sweep returns, the collection holds exactly the documents it
\* held when the sweep queried it whose cleanupAfterISO is not before the
\* sweep's todayISO (or that record an oracle attempt only and have no
\* cleanupAfterISO), each unchanged.
C17_SweepDeletesExactlyExpired ==
    [][\A p \in Procs :
        SweepReturns(p) =>
            LET start == IF pc[p] = "sweep" THEN sweepStart[p]
                         ELSE [todayISO |-> toISODate(today), store |-> store]
                kept == {id \in DOMAIN start.store :
                            \/ start.store[id].cleanupAfterISO = NoText
                            \/ ~ISOLess(start.store[id].cleanupAfterISO, start.todayISO)}
            IN  /\ DOMAIN store' = kept
                /\ \A id \in kept : store'[id] = start.store[id]]_vars

\* A sweep has returned that deleted a document and kept one whose
\* cleanupAfterISO is the day of the sweep.
C17_Witness ==
    \E p \in Procs :
        /\ pc[p] = "idle" /\ ret[p].kind = "swept" /\ ret[p].deleted > 0
        /\ clockSteps = 0
        /\ \E id \in DOMAIN store : store[id].cleanupAfterISO = toISODate(today)

\* p's sweep takes its step deleted++ after a deleteDoc that has resolved.
SweepCounts(p) ==
    /\ pc[p] = "sweep"
    /\ ret'[p].kind # "StorageError"
    /\ sweepDocs'[p] # sweepDocs[p]

\* C18: the counts interleaved sweeps report add up to the number of plans
\* removed: whenever a sweep counts a deletion, a document has left the
\* collection in that step.
C18_SweepCountsAddUp ==
    [][\A p \in Callers : SweepCounts(p) => DOMAIN store' # DOMAIN store]_vars

\* C19: when the two callers' upsert calls for the same new plan id have both
\* returned, the stored plan is one that the two calls made one after the
\* other, in one order or the other, may leave.
C19_RaceLeavesSequentialPlan ==
    (/\ calls = 2
     /\ \A p \in Callers : pc[p] = "idle" /\ ret[p].kind = "ok"
     /\ \A p \in Callers, o \in Callers : ret[p].planId = ret[o].planId)
    => \E p \in Callers : \E o \in Callers \ {p} :
          store[ret[p].planId]
              \in SequentialOutcomes(ret[p].req, ret[o].req, geminiConfigured, rollover)

\* C20: a range query of a signed-in caller for a plan id that is not in the
\* collection ends with a NotFoundError, not with a result.
C20_UnknownPlanIsNotFound ==
    (q.kind = "range" /\ signedIn /\ q.planId \notin DOMAIN store) => q.outcome = "NotFoundError"

\* The instant a task of the plan fires at.
TriggerOf(task) == dateFromISOAndTime(task.dueDateISO, task.timeHHmm, rollover)

\* The positions in the tasks of caller p's window whose trigger is after the
\* instant of the call.
FutureTasks(p) == {i \in 1..Len(proj[p].tasks) : TriggerOf(proj[p].tasks[i]) > proj[p].now}

\* C21: the triggers a projection call selects and registers are in ascending
\* order of trigger time, every one is strictly after the instant of the call,
\* they are at most 60, all the future triggers of the window are selected
\* when these are at most 60, and otherwise no future trigger left out is
\* earlier than a selected one.
C21_TriggersAscendingFutureCapped ==
    \A p \in DOMAIN proj :
        proj[p].pc \in {"cancel", "schedule", "store"} \/ proj[p].returned =>
            LET upcoming == proj[p].upcoming
                ids == proj[p].ids
                selected == {upcoming[i].task : i \in 1..Len(upcoming)}
                future == {proj[p].tasks[i] : i \in FutureTasks(p)}
            IN  /\ \A i \in 1..Len(upcoming) :
                      /\ upcoming[i].triggerDate = TriggerOf(upcoming[i].task)
                      /\ upcoming[i].triggerDate > proj[p].now
                      /\ \A j \in 1..Len(upcoming) :
                            i < j => upcoming[i].triggerDate <= upcoming[j].triggerDate
                /\ Len(upcoming) = Min(NotificationCap, Cardinality(FutureTasks(p)))
                /\ selected \subseteq future
                /\ \A t \in future \ selected : \A u \in selected : TriggerOf(u) <= TriggerOf(t)
                /\ Len(ids) <= Len(upcoming)
                /\ \A k \in 1..Len(ids) :
                      /\ ids[k] \in DOMAIN sink =>
                            /\ sink[ids[k]].date > proj[p].now
                            /\ \E i \in 1..Len(upcoming) : sink[ids[k]] = Registered(upcoming[i])
                      /\ \A l \in 1..Len(ids) :
                            k < l /\ ids[k] \in DOMAIN sink /\ ids[l] \in DOMAIN sink
                                => sink[ids[k]].date <= sink[ids[l]].date

\* A call made at 07:00 has registered 60 triggers of a window that holds
\* more than 60 future ones, a task due at the instant of the call and two
\* tasks of one day in the other order than their times.
C21_Witness ==
    \E p \in DOMAIN proj :
        /\ proj[p].pc = "store"
        /\ Len(proj[p].ids) = NotificationCap
        /\ Cardinality(FutureTasks(p)) > NotificationCap
        /\ \E i \in 1..Len(proj[p].tasks) : TriggerOf(proj[p].tasks[i]) = proj[p].now
        /\ \E i, j \in 1..Len(proj[p].tasks) :
              /\ i < j
              /\ proj[p].tasks[i].dueDateISO = proj[p].tasks[j].dueDateISO
              /\ TriggerOf(proj[p].tasks[i]) > TriggerOf(proj[p].tasks[j])
              /\ TriggerOf(proj[p].tasks[j]) > proj[p].now

\* The ids of the triggers the host scheduler holds for a plan.
RegisteredFor(planId) == {id \in DOMAIN sink : sink[id].planId = planId}

\* C22: when no projection call is in progress, the triggers registered for
\* the plan of the most recent call are exactly the batch that call registered.
C22_RegisteredIsLastBatch ==
    (\A p \in DOMAIN proj : proj[p].pc = "idle") =>
        \A p \in DOMAIN proj :
            proj[p].returned /\ proj[p].call = projCalls =>
                RegisteredFor(proj[p].planId) = {proj[p].ids[k] : k \in 1..Len(proj[p].ids)}

\* C23: every instance a query returns is due on a one-off task of its plan or
\* on an occurrence of a cadence rule of its type, recurring or watering, whose
\* everyDays is below the stop sentinel: a rule with the stop sentinel
\* contributes no instance.
C23_SentinelRulesEmitNothing ==
    \A i \in 1..Len(q.result) :
        LET t == q.result[i]
            plan == store[t.planId]
            planting == parseLooseDate(plan.plantingDateISO, rollover)
        IN  \/ \E k \in 1..Len(plan.tasks) :
                  plan.tasks[k].type = t.type /\ plan.tasks[k].dueDateISO = t.dueDateISO
            \/ \E r \in CadenceRules(plan) :
                  /\ r.type = t.type
                  /\ r.everyDays < StopSentinel
                  /\ t.dueDateISO \in GridDatesInWindow(planting, r, t.dueDateISO, t.dueDateISO)

\* The keys (planId, dueDate, title) of the instances of a list.
InstanceKeys(list) == {InstanceKey(list[i]) : i \in 1..Len(list)}

\* C24: the list a range query returns for a stored plan has no two instances
\* with the same (planId, dueDate, title), and has an instance for every key
\* that the plan's one-off tasks and rules emit in the window.
C24_OneInstancePerKey ==
    (q.kind = "range" /\ signedIn /\ q.planId \in DOMAIN store) =>
        /\ \A i, j \in 1..Len(q.result) :
              i # j => InstanceKey(q.result[i]) # InstanceKey(q.result[j])
        /\ \E language \in QueryLanguages :
              InstanceKeys(q.result) =
                  InstanceKeys(EmittedInRange(store[q.planId], q.startISO, q.endISO, language, rollover))

\* A range query has answered for a window in which a recurring task and a
\* watering rule of the plan emit the same date and title.
C24_Witness ==
    /\ q.kind = "range" /\ signedIn /\ q.planId \in DOMAIN store
    /\ Len(q.result) > 1
    /\ \E language \in QueryLanguages :
          LET emitted == EmittedInRange(store[q.planId], q.startISO, q.endISO, language, rollover)
          IN  \E i, j \in 1..Len(emitted) :
                 /\ i # j
                 /\ InstanceKey(emitted[i]) = InstanceKey(emitted[j])
                 /\ emitted[i].type # emitted[j].type

\* C25: the list a range query returns is in ascending order of due date, and
\* instances of one due date are in the order of their titles compared code
\* unit by code unit.
C25_SortedByDateThenOrdinalTitle ==
    q.kind = "range" =>
        \A i, j \in 1..Len(q.result) :
            i < j =>
                \/ ISOLess(q.result[i].dueDateISO, q.result[j].dueDateISO)
                \/ /\ q.result[i].dueDateISO = q.result[j].dueDateISO
                   /\ OrdinalRank(q.result[i].title) <= OrdinalRank(q.result[j].title)

\* The earliest due date among the instances of a plan in the preview window
\* of the day, or NoNextTaskISO for a plan with none.
NearestUpcomingISO(plan) ==
    LET upcoming == expandUpcomingFromRules(plan, PreviewWindowDays, "en", today, rollover)
        dues == {upcoming[i].dueDateISO : i \in 1..Len(upcoming)}
    IN  IF dues = {} THEN NoNextTaskISO
        ELSE CHOOSE d \in dues : \A e \in dues : ISOLeq(d, e)

\* C26: in the list of the active plans, a plan stands before every plan whose
\* nearest upcoming instance is later, and among plans with the same nearest
\* date before every plan with a later harvest date.
C26_RankedByNearestUpcoming ==
    q.kind = "active" =>
        \A i, j \in 1..Len(q.result) :
            i < j =>
                LET a == store[q.result[i].id]
                    b == store[q.result[j].id]
                IN  \/ ISOLess(NearestUpcomingISO(a), NearestUpcomingISO(b))
                    \/ /\ NearestUpcomingISO(a) = NearestUpcomingISO(b)
                       /\ ISOLeq(a.expectedHarvestDateISO, b.expectedHarvestDateISO)

\* C27: the upcoming query returns, as a set of (planId, dueDate, title),
\* exactly the instances that the range expansion over [today, today +
\* windowDays] yields for the active plans of the collection, and no instance
\* of a plan whose status is completed.
C27_UpcomingIsUnionOfExpansions ==
    (q.kind = "upcoming" /\ signedIn) =>
        LET windowDays == Max(1, q.windowDays)
            expanded(plan) ==
                expandInRangeFromRules(plan, toISODate(today), toISODate(addDays(today, windowDays)),
                                       "en", rollover)
        IN  /\ InstanceKeys(q.result) =
                   UNION {InstanceKeys(expanded(store[id])) :
                             id \in {x \in DOMAIN store : store[x].status = "active"}}
            /\ \A i \in 1..Len(q.result) : store[q.result[i].planId].status # "completed"

\* The documents of the collection that hold a plan: an upsert whose oracle call
\* failed first writes a document with the attempt fields only.
PersistedPlans == {id \in DOMAIN store : store[id].plantingDateISO # NoText}

\* C28: every plan in the collection has a harvest date and a cleanup date, and
\* its cleanupAfterISO is the day after its expectedHarvestDateISO.
C28_CleanupIsDayAfterHarvest ==
    \A id \in PersistedPlans :
        /\ store[id].expectedHarvestDateISO # NoText
        /\ store[id].cleanupAfterISO # NoText
        /\ store[id].cleanupAfterISO =
               toISODate(addDays(parseLooseDate(store[id].expectedHarvestDateISO, rollover), 1))

\* The collection holds a heuristic plan written after a failed oracle call
\* and a plan generated by the oracle.
C28_Witness ==
    /\ \E id \in PersistedPlans :
          store[id].source = "heuristic" /\ store[id].geminiGenerationError # ""
    /\ \E id \in PersistedPlans : store[id].source = "gemini"

\* C29: when an upsert whose oracle call failed with the message m returns,
\* the plan it leaves has the attempt recorded and m as its
\* geminiGenerationError.
C29_FailureMessageIsRecorded ==
    [][\A p \in DOMAIN pc :
          (pc[p] = "write" /\ call[p].oracleFailed /\ call[p].message # "" /\ pc'[p] = "idle"
             /\ ret'[p].kind = "ok")
          => /\ call[p].planId \in DOMAIN store'
             /\ store'[call[p].planId].geminiGenerationAttempted
             /\ store'[call[p].planId].geminiGenerationError = call[p].message]_vars

====
